---------------------------- MODULE Spec2Model ----------------------------
(***************************************************************************)
(* A model of the PIK Comfort integration (custom_components/pik_comfort). *)
(*                                                                         *)
(*  - the scheduled refresh coordinator (_base.py,                         *)
(*    _async_update_delegator): specification Spec;                        *)
(*  - the reconciliation engine of api.py (create_from_json_list,          *)
(*    update_list_with_models, update_from_json): specifications           *)
(*    SpecList, SpecAttachments, SpecReceipts, SpecRecord, SpecAccount;    *)
(*  - the account properties last_payment and last_receipt: SpecLast;      *)
(*  - the tariffs of a meter, nested records and nullable attributes of   *)
(*    api.py: SpecMeter, SpecNested, SpecNullable;                         *)
(*  - the classifier forest and TicketClassifier.path_from, path_to and    *)
(*    parents: SpecClassifier;                                             *)
(*  - the PikComfortAPI client (async_request, async_authenticate_otp,     *)
(*    async_update_info, async_update_classifiers, async_create_ticket,    *)
(*    PikComfortMeter.async_submit_readings): SpecRequest, SpecAuth,       *)
(*    SpecTicket, SpecInfo, SpecRefresh, SpecSubmit;                       *)
(*  - the coordinator driving async_update_info of the client: SpecFetch;  *)
(*  - the push_readings service of binary_sensor.py: SpecSensor; the       *)
(*    services with the events they fire: SpecService;                     *)
(*  - the entity update pass of binary_sensor.py: SpecEntities;            *)
(*  - the OTP step of config_flow.py: SpecFlow; the first step of its      *)
(*    configuration and options flows: SpecEntry;                          *)
(*  - the life of a config entry (__init__.py async_setup_entry and        *)
(*    async_unload_entry, _base.py async_setup_entry_for_platforms):       *)
(*    SpecLife.                                                            *)
(*                                                                         *)
(* Python objects are records carrying an "oid" field, the identity of     *)
(* the instance inside its list; two records with equal fields and         *)
(* different oid are two instances that compare equal with ==.             *)
(***************************************************************************)
EXTENDS Integers, Sequences, FiniteSets, TLC

\* ------------------------------------------------------------------ bounds
NumCallers == 2       \* tasks that may call _async_update_delegator
MaxRefresh == 2       \* refresh rounds (shared futures) a behaviour may start
MaxLen == 2           \* longest JSON list handed to a list of records or receipts
MaxAttachments == 3   \* longest JSON list handed to a list of attachments

\* ------------------------------------------------------------------ state
VARIABLES
    \* --- _base.py, the closure of async_setup_entry_for_platforms
    collective_update_future,   \* 0 = None, else the id of the shared future
    collective_update_counter,  \* number of refreshes started
    future,                     \* future id -> state of that asyncio.Future
    pc,                         \* caller -> where its coroutine is suspended
    awaited,                    \* caller -> future it leads or awaits (0: none)
    outcome,                    \* caller -> how its call ended
    fetches,                    \* future id -> async_update_info calls issued
    fetch_result,               \* future id -> how async_update_info ended
    notified,                   \* future id -> async_handle_data_update ran
    \* --- api.py, a list of TurnoverBalanceRecord and the last call on it
    target_list,
    list_op,
    \* --- api.py, a list of PikComfortAttachmentImage and the last call on it
    attachments,
    attachments_op,
    \* --- api.py, a list of PikComfortReceipt and the last call on it
    receipts,
    receipts_op,
    \* --- api.py, one identifiable record and the last call on it
    record,
    record_op,
    \* --- api.py, one PikComfortAccount and the last call on it
    account,
    account_op,
    \* --- api.py, the PikComfortAPI client and the call in progress or last made
    api,
    api_op,
    \* --- config_flow.py, the flow handler at its OTP step, the last call of
    \* the step, and the clock that time() reads
    flow,
    flow_op,
    clock,
    \* --- __init__.py, _base.py, binary_sensor.py: what Home Assistant holds
    \* for the config entry (hass.data, listeners, timers, entities), and
    \* the last call made on it
    hass,
    hass_op

coord_vars == <<collective_update_future, collective_update_counter, future,
                pc, awaited, outcome, fetches, fetch_result, notified>>
list_vars == <<target_list, list_op>>
attachments_vars == <<attachments, attachments_op>>
receipts_vars == <<receipts, receipts_op>>
record_vars == <<record, record_op>>
account_vars == <<account, account_op>>
api_vars == <<api, api_op>>
flow_vars == <<flow, flow_op, clock>>
hass_vars == <<hass, hass_op>>
model_vars == <<list_vars, attachments_vars, receipts_vars, record_vars, account_vars,
                api_vars, flow_vars, hass_vars>>
vars == <<coord_vars, model_vars>>

\* ====================================================================
\* The refresh coordinator: _base.py, _async_update_delegator
\* ====================================================================
Callers == 1..NumCallers
Futures == 1..MaxRefresh

\* The exceptions a call can end with.  "PikComfortException" stands for the
\* class and its subclasses (RequestError, ServerError); "Exception" for any
\* other exception async_update_info lets through (AssertionError,
\* AttributeError, KeyError, TypeError, ValueError raised while the payload
\* is reconciled into the model).
FetchResults == {"ok", "PikComfortException", "Exception"}

CoordInit ==
    /\ collective_update_future = 0
    /\ collective_update_counter = 0
    /\ future = [f \in Futures |-> "absent"]
    /\ pc = [c \in Callers |-> "idle"]
    /\ awaited = [c \in Callers |-> 0]
    /\ outcome = [c \in Callers |-> "none"]
    /\ fetches = [f \in Futures |-> 0]
    /\ fetch_result = [f \in Futures |-> "none"]
    /\ notified = [f \in Futures |-> FALSE]

\* a faulty variant: the delegator never notices the refresh that is in flight
is_refreshing_ignored == FALSE

\* `if collective_update_future:` (a Future object is truthy)
is_refreshing == collective_update_future # 0

\* A caller enters _async_update_delegator and runs to its first suspension.
Request(c) ==
    /\ pc[c] = "idle"
    /\ IF is_refreshing
       THEN \* tap into the existing future
            /\ awaited' = [awaited EXCEPT ![c] = collective_update_future]
            /\ IF future[collective_update_future] = "cancelled"
               THEN \* awaiting a cancelled future raises at once
                    /\ pc' = [pc EXCEPT ![c] = "done"]
                    /\ outcome' = [outcome EXCEPT ![c] = "CancelledError"]
               ELSE /\ pc' = [pc EXCEPT ![c] = "wait"]
                    /\ UNCHANGED outcome
            /\ UNCHANGED <<collective_update_future, collective_update_counter,
                           future>>
       ELSE /\ collective_update_counter < MaxRefresh
            /\ collective_update_counter' = collective_update_counter + 1
            /\ collective_update_future' = collective_update_counter + 1
            /\ future' = [future EXCEPT ![collective_update_counter + 1] = "pending"]
            /\ awaited' = [awaited EXCEPT ![c] = collective_update_counter + 1]
            /\ pc' = [pc EXCEPT ![c] = "sleep"]
            /\ UNCHANGED outcome
    /\ UNCHANGED <<fetches, fetch_result, notified>>

\* asyncio.sleep(3) returns; the leader calls api_object.async_update_info(),
\* which suspends on the HTTP request.
SleepDone(c) ==
    /\ pc[c] = "sleep"
    /\ pc' = [pc EXCEPT ![c] = "fetch"]
    /\ fetches' = [fetches EXCEPT ![awaited[c]] = @ + 1]
    /\ UNCHANGED <<collective_update_future, collective_update_counter, future,
                   awaited, outcome, fetch_result, notified>>

\* async_update_info returns or raises; the try/except/else/finally runs.
FetchDone(c, res) ==
    /\ pc[c] = "fetch"
    /\ fetch_result' = [fetch_result EXCEPT ![awaited[c]] = res]
    /\ collective_update_future' = 0                       \* finally
    /\ IF res = "Exception"
       THEN \* not a PikComfortException: no except clause matches
            /\ pc' = [pc EXCEPT ![c] = "done"]
            /\ outcome' = [outcome EXCEPT ![c] = "Exception"]
            /\ UNCHANGED future
       ELSE IF future[awaited[c]] = "cancelled"
       THEN \* set_result / set_exception on a cancelled future
            /\ pc' = [pc EXCEPT ![c] = "done"]
            /\ outcome' = [outcome EXCEPT ![c] = "InvalidStateError"]
            /\ UNCHANGED future
       ELSE IF res = "PikComfortException"
       THEN /\ future' = [future EXCEPT ![awaited[c]] = "PikComfortException"]
            /\ pc' = [pc EXCEPT ![c] = "done"]
            /\ outcome' = [outcome EXCEPT ![c] = "PikComfortException"]
       ELSE /\ future' = [future EXCEPT ![awaited[c]] = "ok"]
            /\ pc' = [pc EXCEPT ![c] = "notify"]
            /\ UNCHANGED outcome
    /\ UNCHANGED <<collective_update_counter, awaited, fetches, notified>>

\* async_handle_data_update returns (it logs the platforms' errors).
NotifyDone(c) ==
    /\ pc[c] = "notify"
    /\ notified' = [notified EXCEPT ![awaited[c]] = TRUE]
    /\ pc' = [pc EXCEPT ![c] = "done"]
    /\ outcome' = [outcome EXCEPT ![c] = "ok"]
    /\ UNCHANGED <<collective_update_future, collective_update_counter, future,
                   awaited, fetches, fetch_result>>

\* `await collective_update_future` resumes once the future is done.
WaiterResume(c) ==
    /\ pc[c] = "wait"
    /\ future[awaited[c]] \in {"ok", "PikComfortException", "cancelled"}
    /\ pc' = [pc EXCEPT ![c] = "done"]
    /\ outcome' = [outcome EXCEPT ![c] =
            IF future[awaited[c]] = "cancelled" THEN "CancelledError"
            ELSE future[awaited[c]]]
    /\ UNCHANGED <<collective_update_future, collective_update_counter, future,
                   awaited, fetches, fetch_result, notified>>

\* The host cancels the task of a caller at one of its suspension points.
Cancel(c) ==
    /\ pc[c] \in {"sleep", "fetch", "notify", "wait"}
    /\ pc' = [pc EXCEPT ![c] = "done"]
    /\ outcome' = [outcome EXCEPT ![c] = "CancelledError"]
    /\ collective_update_future' =
          IF pc[c] = "fetch" THEN 0       \* inside try: finally runs
          ELSE collective_update_future   \* the sleep is outside the try
    /\ future' =
          IF pc[c] = "wait" /\ future[awaited[c]] = "pending"
          THEN [future EXCEPT ![awaited[c]] = "cancelled"]  \* Task.cancel
          ELSE future
    /\ UNCHANGED <<collective_update_counter, awaited, fetches, fetch_result,
                   notified>>

\* The caller's task is over; the same entity or timer may call again.
Return(c) ==
    /\ pc[c] = "done"
    /\ pc' = [pc EXCEPT ![c] = "idle"]
    /\ awaited' = [awaited EXCEPT ![c] = 0]
    /\ outcome' = [outcome EXCEPT ![c] = "none"]
    /\ UNCHANGED <<collective_update_future, collective_update_counter, future,
                   fetches, fetch_result, notified>>

\* --------------------------------------------------------------------
\* Properties of the refresh coordinator
\* --------------------------------------------------------------------
Leaders == {c \in Callers : pc[c] \in {"sleep", "fetch"}}
OnRound(f) == {c \in Callers : awaited[c] = f}

\* C1: the requests coalesced onto one refresh cause exactly one snapshot
\* fetch, and once that fetch has ended with result x every caller of the
\* refresh ends with x: it has completed with x, or it is the leader about to
\* return after notifying (x = ok), or it waits on a future that holds x.  (A
\* caller that was itself cancelled is not counted.)
C1_CoalescedCallersShareOutcome ==
    \A f \in Futures :
        /\ fetches[f] <= 1
        /\ (fetch_result[f] # "none" /\ future[f] # "cancelled") =>
             \A c \in OnRound(f) :
                \/ pc[c] = "done" /\ outcome[c] \in {fetch_result[f], "CancelledError"}
                \/ pc[c] = "notify" /\ fetch_result[f] = "ok"
                \/ pc[c] = "wait" /\ future[f] = fetch_result[f]

\* C2: at most one snapshot fetch is in flight; only the caller that set the
\* in-flight marker can be sleeping or fetching, every other caller of the
\* round waits on the future the leader created, and no round fetches twice.
C2_SingleFetchInFlight ==
    /\ Cardinality({c \in Callers : pc[c] = "fetch"}) <= 1
    /\ Cardinality(Leaders) <= 1
    /\ \A c \in Leaders : collective_update_future = awaited[c]
    /\ \A c \in Callers : pc[c] = "wait" =>
            /\ awaited[c] \in 1..collective_update_counter
            /\ future[awaited[c]] # "absent"
            /\ \A d \in Leaders : awaited[d] = awaited[c] => d # c
    /\ \A f \in Futures : fetches[f] <= 1

\* C2 witness: a leader is fetching while another caller waits on its future.
C2_Witness ==
    \E c, d \in Callers :
        /\ pc[c] = "fetch" /\ pc[d] = "wait"
        /\ awaited[d] = awaited[c]
        /\ collective_update_future = awaited[c]

\* C3: when the fetch-and-reconcile pass of a refresh has failed, with any
\* kind of failure, a caller still waiting on the shared future of that
\* refresh finds the failure stored in it (so that it receives it on resuming).
C3_FailureReachesEveryWaiter ==
    \A c \in Callers :
        (pc[c] = "wait" /\ fetch_result[awaited[c]] \in {"PikComfortException", "Exception"})
            => future[awaited[c]] = fetch_result[awaited[c]]

\* C4: whenever no refresh is running any more (no caller is in the coalescing
\* delay or in the fetch), the in-flight marker is clear, so that the next
\* request starts a new fetch.
C4_MarkerClearedAfterRefresh ==
    Leaders = {} => collective_update_future = 0

\* C23: the steps that end a refresh come in the order resolve, notify,
\* clear: while the leader of a refresh notifies the consumers, the shared
\* future of the refresh is resolved and the in-flight marker still names
\* it; and once the fetch of a refresh has ended, with any outcome, the
\* consumers are being notified or have been.
C23_ResolveNotifyThenClear ==
    /\ \A c \in Callers :
           pc[c] = "notify" =>
               /\ future[awaited[c]] \in {"ok", "PikComfortException"}
               /\ collective_update_future = awaited[c]
    /\ \A f \in Futures :
           fetch_result[f] # "none" =>
               \/ notified[f]
               \/ \E c \in OnRound(f) : pc[c] = "notify"

\* C35: cancelling a caller that waits on the shared future of a refresh
\* leaves that future to the others: no shared future is ever cancelled,
\* the future of a refresh whose fetch returned or raised the client's
\* exception carries that outcome, and no caller ends with the error of
\* resolving a future that is already done.
C35_WaiterCancelIsLocal ==
    /\ \A f \in Futures :
           /\ future[f] # "cancelled"
           /\ fetch_result[f] \in {"ok", "PikComfortException"} =>
                  future[f] = fetch_result[f]
    /\ \A c \in Callers : outcome[c] # "InvalidStateError"

\* ====================================================================
\* The reconciliation engine: api.py
\* ====================================================================
\* JSON objects are records with the payload's keys.  A model object is a
\* record with an "oid" field; a JSON dict has none.
\* The JSON of a TurnoverBalanceRecord; "total" stands for its scalar keys
\* (service_name ... total), which create and update all copy alike.  Three
\* identities: two share the id, two share the type; one of them comes with
\* two values.
TurnoverJson ==
    { [_uid |-> "u1", _type |-> "A", total |-> "old"],
      [_uid |-> "u1", _type |-> "A", total |-> "new"],
      [_uid |-> "u2", _type |-> "A", total |-> "old"],
      [_uid |-> "u1", _type |-> "B", total |-> "old"] }

RECURSIVE SeqsUpTo(_, _)
SeqsUpTo(S, n) ==
    IF n = 0 THEN {<<>>}
    ELSE LET shorter == SeqsUpTo(S, n - 1)
         IN shorter \cup {Append(q, x) : q \in {r \in shorter : Len(r) = n - 1}, x \in S}

\* an instance of a model class, as opposed to a raw JSON mapping
is_object(x) == "oid" \in DOMAIN x

\* a fresh instance: the smallest oid no object of the list carries
new_oid(list) ==
    LET used == {list[i].oid : i \in {j \in 1..Len(list) : is_object(list[j])}}
    IN CHOOSE n \in 1..(Len(list) + 1) :
           n \notin used /\ \A m \in 1..(n - 1) : m \in used

reversed(list) == [i \in 1..Len(list) |-> list[Len(list) + 1 - i]]

\* attrs' generated __eq__: same class and every attribute equal, whichever
\* the instances
attrs_eq(a, b) ==
    is_object(a) /\ is_object(b) /\ [a EXCEPT !.oid = 0] = [b EXCEPT !.oid = 0]

\* list.remove(x): drops the first element that compares equal to x
RECURSIVE first_equal(_, _, _)
first_equal(list, x, i) ==
    IF i > Len(list) THEN 0
    ELSE IF attrs_eq(list[i], x) THEN i
    ELSE first_equal(list, x, i + 1)

list_remove(list, x) ==
    LET i == first_equal(list, x, 1)
    IN [j \in 1..(Len(list) - 1) |-> IF j < i THEN list[j] ELSE list[j + 1]]

\* --- TurnoverBalanceRecord
TurnoverBalanceRecord_create_from_json(json_data, oid) ==
    [cls |-> "TurnoverBalanceRecord", oid |-> oid,
     id |-> json_data._uid, type |-> json_data._type, total |-> json_data.total]

TurnoverBalanceRecord_update_from_json(self, json_data) ==
    IF self.id # json_data._uid \/ self.type # json_data._type
    THEN [raised |-> "AssertionError", obj |-> self]
    ELSE [raised |-> "none", obj |-> [self EXCEPT !.total = json_data.total]]

\* --- PikComfortReceiptContent (its nested turnover_balance_records list is
\* left out; `total` stands for its scalar attributes)
PikComfortReceiptContent_create_from_json(json_data, oid) ==
    [cls |-> "PikComfortReceiptContent", oid |-> oid,
     id |-> json_data._uid, type |-> json_data._type, total |-> json_data.total]

PikComfortReceiptContent_update_from_json(self, json_data) ==
    IF self.id # json_data._uid \/ self.type # json_data._type
    THEN [raised |-> "AssertionError", obj |-> self]
    ELSE [raised |-> "none", obj |-> [self EXCEPT !.total = json_data.total]]

\* --- PikComfortAttachmentImage (`name` stands for its scalar attributes;
\* a payload item that has its uid only raises KeyError at `tags`, the
\* first key read after the uid, before anything is assigned)
PikComfortAttachmentImage_create_from_json(json_data, oid) ==
    [cls |-> "PikComfortAttachmentImage", oid |-> oid,
     id |-> json_data.uid, name |-> json_data.name]

PikComfortAttachmentImage_update_from_json(self, json_data) ==
    IF self.id # json_data.uid
    THEN [raised |-> "AssertionError", obj |-> self]
    ELSE IF "name" \notin DOMAIN json_data
    THEN [raised |-> "KeyError", obj |-> self]
    ELSE [raised |-> "none", obj |-> [self EXCEPT !.name = json_data.name]]

\* --- PikComfortAttachmentImage.update_list_with_models
RECURSIVE attachment_find_existing(_, _, _)
attachment_find_existing(target_list_, attachment_id, i) ==
    IF i > Len(target_list_) THEN 0
    ELSE IF target_list_[i].id = attachment_id THEN i
    ELSE attachment_find_existing(target_list_, attachment_id, i + 1)

RECURSIVE attachment_merge_items(_, _, _)

attachment_merge_updated(target_list_, json_data_list, k, i, r) ==
    IF r.raised # "none"
    THEN [raised |-> r.raised, list |-> [target_list_ EXCEPT ![i] = r.obj]]
    ELSE attachment_merge_items([target_list_ EXCEPT ![i] = r.obj], json_data_list, k + 1)

attachment_merge_found(target_list_, json_data_list, k, i) ==
    IF i = 0
    THEN IF "name" \notin DOMAIN json_data_list[k]
         THEN [raised |-> "KeyError", list |-> target_list_]
         ELSE attachment_merge_items(
                  Append(target_list_,
                         PikComfortAttachmentImage_create_from_json(
                             json_data_list[k], new_oid(target_list_))),
                  json_data_list, k + 1)
    ELSE attachment_merge_updated(
             target_list_, json_data_list, k, i,
             PikComfortAttachmentImage_update_from_json(target_list_[i], json_data_list[k]))

attachment_merge_items(target_list_, json_data_list, k) ==
    IF k > Len(json_data_list) THEN [raised |-> "none", list |-> target_list_]
    ELSE attachment_merge_found(
             target_list_, json_data_list, k,
             attachment_find_existing(target_list_, json_data_list[k].uid, 1))

RECURSIVE attachment_evict_items(_, _, _, _)
attachment_evict_items(target_list_, snapshot, k, cleanup) ==
    IF k > Len(snapshot) THEN [raised |-> "none", list |-> target_list_]
    ELSE LET current_attachment == snapshot[k]
         IN IF current_attachment.id \notin cleanup
            THEN attachment_evict_items(list_remove(target_list_, current_attachment),
                                        snapshot, k + 1, cleanup)
            ELSE attachment_evict_items(target_list_, snapshot, k + 1,
                                        cleanup \ {current_attachment.id})

attachment_evict_merged(merged, cleanup) ==
    IF merged.raised # "none" THEN merged
    ELSE attachment_evict_items(merged.list, reversed(merged.list), 1, cleanup)

PikComfortAttachmentImage_update_list_with_models(target_list_, json_data_list) ==
    attachment_evict_merged(attachment_merge_items(target_list_, json_data_list, 1),
                            {json_data_list[k].uid : k \in 1..Len(json_data_list)})

\* --- InfoResult (its accounts list is left out; `phone` stands for its
\* scalar attributes)
InfoResult_create_from_json(json_data, oid) ==
    [cls |-> "InfoResult", oid |-> oid,
     id |-> json_data._uid, type |-> json_data._type, phone |-> json_data.phone]

InfoResult_update_from_json(self, json_data) ==
    [raised |-> "none",
     obj |-> [self EXCEPT !.id = json_data._uid, !.type = json_data._type,
                          !.phone = json_data.phone]]

\* --- PikComfortPremise (`address` stands for its scalar attributes)
PikComfortPremise_create_from_json(json_data, oid) ==
    [cls |-> "PikComfortPremise", oid |-> oid,
     id |-> json_data._uid, type |-> json_data._type, address |-> json_data.address]

PikComfortPremise_update_from_json(self, json_data) ==
    [raised |-> "none",
     obj |-> [self EXCEPT !.id = json_data._uid, !.type = json_data._type,
                          !.address = json_data.address]]

\* --- PikComfortBuilding (`address` stands for its scalar attributes)
PikComfortBuilding_create_from_json(json_data, oid) ==
    [cls |-> "PikComfortBuilding", oid |-> oid,
     id |-> json_data._uid, type |-> json_data._type, address |-> json_data.address]

PikComfortBuilding_update_from_json(self, json_data) ==
    [raised |-> "none",
     obj |-> [self EXCEPT !.id = json_data._uid, !.type = json_data._type,
                          !.address = json_data.address]]

\* --- PikComfortTicket (its comments list is left out; `description`
\* stands for its scalar attributes)
PikComfortTicket_create_from_json(json_data, oid) ==
    [cls |-> "PikComfortTicket", oid |-> oid,
     id |-> json_data._uid, type |-> json_data._type,
     description |-> json_data.description,
     attachments |-> [i \in 1..Len(json_data.attachments) |->
                         PikComfortAttachmentImage_create_from_json(
                             json_data.attachments[i], i)]]

\* the rest of update_from_json: the attachments were reconciled with
\* outcome r
PikComfortTicket_update_scalars(self, json_data, r) ==
    IF r.raised # "none"
    THEN [raised |-> r.raised, obj |-> [self EXCEPT !.attachments = r.list]]
    ELSE [raised |-> "none",
          obj |-> [self EXCEPT !.attachments = r.list,
                               !.description = json_data.description]]

PikComfortTicket_update_from_json(self, json_data) ==
    IF self.id # json_data._uid \/ self.type # json_data._type
    THEN [raised |-> "AssertionError", obj |-> self]
    ELSE PikComfortTicket_update_scalars(
             self, json_data,
             PikComfortAttachmentImage_update_list_with_models(
                 self.attachments, json_data.attachments))

\* --- Tariff (a zone of a meter: its number, the reading the provider
\* holds and the reading the user submitted last, None when there is none)
Tariff_create_from_json(json_data, oid) ==
    [cls |-> "Tariff", oid |-> oid, type |-> json_data.type, value |-> json_data.value,
     user_value |-> json_data.user_value]

Tariff_update_from_json(self, json_data) ==
    IF self.type # json_data.type
    THEN [raised |-> "AssertionError", obj |-> self]
    ELSE [raised |-> "none",
          obj |-> [self EXCEPT !.value = json_data.value,
                               !.user_value = json_data.user_value]]

\* --- PaymentPointDetails (`icon_name` and `color` stand for its
\* attributes, assigned in that order; a payload without one of the keys
\* raises KeyError where the key is read)
PaymentPointDetails_create_from_json(json_data, oid) ==
    [cls |-> "PaymentPointDetails", oid |-> oid,
     icon_name |-> json_data.icon_name, color |-> json_data.color]

PaymentPointDetails_update_from_json(self, json_data) ==
    IF "icon_name" \notin DOMAIN json_data
    THEN [raised |-> "KeyError", obj |-> self]
    ELSE IF "color" \notin DOMAIN json_data
    THEN [raised |-> "KeyError", obj |-> [self EXCEPT !.icon_name = json_data.icon_name]]
    ELSE [raised |-> "none",
          obj |-> [self EXCEPT !.icon_name = json_data.icon_name,
                               !.color = json_data.color]]

\* --- PikComfortPayment (`timestamp` is datetime.fromisoformat(payment_date),
\* an instant counted as an integer; its other scalars are left out)
PikComfortPayment_create_from_json(json_data, oid) ==
    [cls |-> "PikComfortPayment", oid |-> oid,
     id |-> json_data._uid, type |-> json_data._type, timestamp |-> json_data.payment_date,
     source_details |-> PaymentPointDetails_create_from_json(
                            json_data.payment_point_details, 1)]

\* a faulty variant: the scalars are assigned whatever the nested update did
PikComfortPayment_update_scalars_first(self, json_data, r) ==
    [raised |-> r.raised,
     obj |-> [self EXCEPT !.source_details = r.obj,
                          !.timestamp = json_data.payment_date]]

\* the rest of update_from_json: the details were updated with outcome r
PikComfortPayment_update_scalars(self, json_data, r) ==
    IF r.raised # "none"
    THEN [raised |-> r.raised, obj |-> [self EXCEPT !.source_details = r.obj]]
    ELSE [raised |-> "none",
          obj |-> [self EXCEPT !.source_details = r.obj,
                               !.timestamp = json_data.payment_date]]

PikComfortPayment_update_from_json(self, json_data) ==
    IF self.id # json_data._uid \/ self.type # json_data._type
    THEN [raised |-> "AssertionError", obj |-> self]
    ELSE PikComfortPayment_update_scalars(
             self, json_data,
             PaymentPointDetails_update_from_json(self.source_details,
                                                  json_data.payment_point_details))

\* None where a string is expected (a parent id, a token) and where a
\* number is expected (a reading)
NoneStr == "None"
NoneNum == -1

\* --- json_data.get(key): None when the mapping has no such key
json_get(json_data, key) ==
    IF key \in DOMAIN json_data THEN json_data[key] ELSE NoneStr

\* --- `x or None` on an Optional[str]: None for None and for the empty
\* string
or_none(x) == IF x = "" THEN NoneStr ELSE x

\* --- TicketClassifier (`name` stands for its scalar attributes)
TicketClassifier_create_from_json(json_data, oid) ==
    [cls |-> "TicketClassifier", oid |-> oid,
     id |-> json_data._uid, type |-> json_data._type, name |-> json_data.name,
     parent_id |-> IF json_data.parent = json_data._uid THEN NoneStr
                   ELSE json_data.parent,
     hint |-> or_none(json_get(json_data, "hint"))]

\* update_from_json storing the payload's parent as it is
TicketClassifier_update_from_json_raw(self, json_data) ==
    IF self.id # json_data._uid \/ self.type # json_data._type
    THEN [raised |-> "AssertionError", obj |-> self]
    ELSE [raised |-> "none",
          obj |-> [self EXCEPT !.name = json_data.name,
                               !.parent_id = json_data.parent,
                               !.hint = or_none(json_get(json_data, "hint"))]]

TicketClassifier_update_from_json(self, json_data) ==
    IF self.id # json_data._uid \/ self.type # json_data._type
    THEN [raised |-> "AssertionError", obj |-> self]
    ELSE [raised |-> "none",
          obj |-> [self EXCEPT !.name = json_data.name,
                               !.parent_id = IF json_data.parent = json_data._uid
                                             THEN NoneStr ELSE json_data.parent,
                               !.hint = or_none(json_get(json_data, "hint"))]]

\* --- cls.create_from_json and self.update_from_json, resolved on the class
\* (PikComfortReceipt, which no inherited method is resolved on here, aside)
create_from_json(cls, json_data, oid) ==
    CASE cls = "TurnoverBalanceRecord" -> TurnoverBalanceRecord_create_from_json(json_data, oid)
      [] cls = "PikComfortReceiptContent" -> PikComfortReceiptContent_create_from_json(json_data, oid)
      [] cls = "PikComfortAttachmentImage" -> PikComfortAttachmentImage_create_from_json(json_data, oid)
      [] cls = "InfoResult" -> InfoResult_create_from_json(json_data, oid)
      [] cls = "PikComfortPremise" -> PikComfortPremise_create_from_json(json_data, oid)
      [] cls = "PikComfortBuilding" -> PikComfortBuilding_create_from_json(json_data, oid)
      [] cls = "PikComfortTicket" -> PikComfortTicket_create_from_json(json_data, oid)
      [] cls = "Tariff" -> Tariff_create_from_json(json_data, oid)
      [] cls = "PikComfortPayment" -> PikComfortPayment_create_from_json(json_data, oid)
      [] cls = "TicketClassifier" -> TicketClassifier_create_from_json(json_data, oid)

update_from_json(self, json_data) ==
    CASE self.cls = "TurnoverBalanceRecord" -> TurnoverBalanceRecord_update_from_json(self, json_data)
      [] self.cls = "PikComfortReceiptContent" -> PikComfortReceiptContent_update_from_json(self, json_data)
      [] self.cls = "PikComfortAttachmentImage" -> PikComfortAttachmentImage_update_from_json(self, json_data)
      [] self.cls = "InfoResult" -> InfoResult_update_from_json(self, json_data)
      [] self.cls = "PikComfortPremise" -> PikComfortPremise_update_from_json(self, json_data)
      [] self.cls = "PikComfortBuilding" -> PikComfortBuilding_update_from_json(self, json_data)
      [] self.cls = "PikComfortTicket" -> PikComfortTicket_update_from_json(self, json_data)
      [] self.cls = "Tariff" -> Tariff_update_from_json(self, json_data)
      [] self.cls = "PikComfortPayment" -> PikComfortPayment_update_from_json(self, json_data)
      [] self.cls = "TicketClassifier" -> TicketClassifier_update_from_json(self, json_data)

\* --- _BaseModel.create_from_json_list
RECURSIVE create_from_json_list(_, _)
create_from_json_list(cls, json_data_list) ==
    IF json_data_list = <<>> THEN <<>>
    ELSE LET front == create_from_json_list(
                          cls, SubSeq(json_data_list, 1, Len(json_data_list) - 1))
         IN Append(front, create_from_json(cls, json_data_list[Len(json_data_list)],
                                           Len(json_data_list)))

\* --- _BaseIdentifiableModel.update_list_with_models
\* the inner `for existing_object in target_list` scan: the index of the first
\* object with the payload item's type and id, 0 when there is none, -1 when
\* the scan meets an element without a `type` attribute first
RECURSIVE find_existing(_, _, _, _)
find_existing(target_list_, object_id, object_type, i) ==
    IF i > Len(target_list_) THEN 0
    ELSE IF ~is_object(target_list_[i]) THEN -1
    ELSE IF target_list_[i].type = object_type /\ target_list_[i].id = object_id THEN i
    ELSE find_existing(target_list_, object_id, object_type, i + 1)

\* the first loop, from payload item k on
RECURSIVE merge_items(_, _, _, _)

\* the payload item updated the object at index i, with outcome r
merge_updated(cls, target_list_, json_data_list, k, i, r) ==
    IF r.raised # "none"
    THEN [raised |-> r.raised, list |-> [target_list_ EXCEPT ![i] = r.obj]]
    ELSE merge_items(cls, [target_list_ EXCEPT ![i] = r.obj], json_data_list, k + 1)

\* the inner scan ended with i
merge_found(cls, target_list_, json_data_list, k, i) ==
    IF i = -1 THEN [raised |-> "AttributeError", list |-> target_list_]
    ELSE IF i = 0
    THEN merge_items(
             cls,
             Append(target_list_,
                    create_from_json(cls, json_data_list[k], new_oid(target_list_))),
             json_data_list, k + 1)
    ELSE merge_updated(cls, target_list_, json_data_list, k, i,
                       update_from_json(target_list_[i], json_data_list[k]))

merge_items(cls, target_list_, json_data_list, k) ==
    IF k > Len(json_data_list) THEN [raised |-> "none", list |-> target_list_]
    ELSE merge_found(cls, target_list_, json_data_list, k,
                     find_existing(target_list_, json_data_list[k]._uid,
                                   json_data_list[k]._type, 1))

\* a faulty variant: the second loop forgotten: nothing is ever removed
evict_items_skipped(target_list_, snapshot, k, cleanup) ==
    [raised |-> "none", list |-> target_list_]

\* the second loop over tuple(reversed(target_list)), from element k on
RECURSIVE evict_items(_, _, _, _)
evict_items(target_list_, snapshot, k, cleanup) ==
    IF k > Len(snapshot) THEN [raised |-> "none", list |-> target_list_]
    ELSE IF ~is_object(snapshot[k]) THEN [raised |-> "AttributeError", list |-> target_list_]
    ELSE LET current_object == snapshot[k]
             key == <<current_object.id, current_object.type>>
         IN IF key \notin cleanup
            THEN evict_items(list_remove(target_list_, current_object), snapshot, k + 1, cleanup)
            ELSE evict_items(target_list_, snapshot, k + 1, cleanup \ {key})

\* the second loop, once the first has ended with `merged`
evict_merged(merged, cleanup) ==
    IF merged.raised # "none" THEN merged
    ELSE evict_items(merged.list, reversed(merged.list), 1, cleanup)

update_list_with_models(cls, target_list_, json_data_list) ==
    evict_merged(merge_items(cls, target_list_, json_data_list, 1),
                 {<<json_data_list[k]._uid, json_data_list[k]._type>> :
                      k \in 1..Len(json_data_list)})

\* --- PikComfortReceipt (`total` stands for its scalar attributes)
\* an ISO 8601 string is its date part and what follows it;
\* datetime.fromisoformat(s).date() keeps the date part only
fromisoformat_date(period) == period.date

PikComfortReceipt_create_from_json(json_data, oid) ==
    [cls |-> "PikComfortReceipt", oid |-> oid,
     type |-> json_data._type, period |-> fromisoformat_date(json_data.period),
     total |-> json_data.total,
     contents |-> create_from_json_list("PikComfortReceiptContent", json_data.main)]

\* create_from_json_list, resolved on PikComfortReceipt
RECURSIVE PikComfortReceipt_create_from_json_list(_)
PikComfortReceipt_create_from_json_list(json_data_list) ==
    IF json_data_list = <<>> THEN <<>>
    ELSE LET front == PikComfortReceipt_create_from_json_list(
                          SubSeq(json_data_list, 1, Len(json_data_list) - 1))
         IN Append(front, PikComfortReceipt_create_from_json(
                              json_data_list[Len(json_data_list)], Len(json_data_list)))

\* the rest of update_from_json, once the content lines were reconciled
\* with outcome r
PikComfortReceipt_update_scalars(self, json_data, r) ==
    IF r.raised # "none"
    THEN [raised |-> r.raised, obj |-> [self EXCEPT !.contents = r.list]]
    ELSE [raised |-> "none",
          obj |-> [self EXCEPT !.total = json_data.total, !.contents = json_data.main]]

PikComfortReceipt_update_from_json(self, json_data) ==
    IF self.type # json_data._type
    THEN [raised |-> "AssertionError", obj |-> self]
    ELSE IF self.period # fromisoformat_date(json_data.period)
    THEN [raised |-> "AssertionError", obj |-> self]
    ELSE PikComfortReceipt_update_scalars(
             self, json_data,
             update_list_with_models("PikComfortReceiptContent",
                                     self.contents, json_data.main))

RECURSIVE receipt_find_existing(_, _, _, _)
receipt_find_existing(target_list_, receipt_type, receipt_period, i) ==
    IF i > Len(target_list_) THEN 0
    ELSE IF target_list_[i].type = receipt_type /\ target_list_[i].period = receipt_period
    THEN i
    ELSE receipt_find_existing(target_list_, receipt_type, receipt_period, i + 1)

RECURSIVE receipt_merge_items(_, _, _)

receipt_merge_updated(target_list_, json_data_list, k, i, r) ==
    IF r.raised # "none"
    THEN [raised |-> r.raised, list |-> [target_list_ EXCEPT ![i] = r.obj]]
    ELSE receipt_merge_items([target_list_ EXCEPT ![i] = r.obj], json_data_list, k + 1)

receipt_merge_found(target_list_, json_data_list, k, i) ==
    IF i = 0
    THEN receipt_merge_items(
             Append(target_list_,
                    PikComfortReceipt_create_from_json(
                        json_data_list[k], new_oid(target_list_))),
             json_data_list, k + 1)
    ELSE receipt_merge_updated(
             target_list_, json_data_list, k, i,
             PikComfortReceipt_update_from_json(target_list_[i], json_data_list[k]))

receipt_merge_items(target_list_, json_data_list, k) ==
    IF k > Len(json_data_list) THEN [raised |-> "none", list |-> target_list_]
    ELSE receipt_merge_found(
             target_list_, json_data_list, k,
             receipt_find_existing(target_list_, json_data_list[k]._type,
                                   fromisoformat_date(json_data_list[k].period), 1))

RECURSIVE receipt_evict_items(_, _, _, _)
receipt_evict_items(target_list_, snapshot, k, cleanup) ==
    IF k > Len(snapshot) THEN [raised |-> "none", list |-> target_list_]
    ELSE LET current_receipt == snapshot[k]
             key == <<current_receipt.type, current_receipt.period>>
         IN IF key \notin cleanup
            THEN receipt_evict_items(list_remove(target_list_, current_receipt),
                                     snapshot, k + 1, cleanup)
            ELSE receipt_evict_items(target_list_, snapshot, k + 1, cleanup \ {key})

receipt_evict_merged(merged, cleanup) ==
    IF merged.raised # "none" THEN merged
    ELSE receipt_evict_items(merged.list, reversed(merged.list), 1, cleanup)

PikComfortReceipt_update_list_with_models(target_list_, json_data_list) ==
    receipt_evict_merged(
        receipt_merge_items(target_list_, json_data_list, 1),
        {<<json_data_list[k]._type, fromisoformat_date(json_data_list[k].period)>> :
             k \in 1..Len(json_data_list)})

\* --- PikComfortMeter (its scalar attributes are left out)
PikComfortMeter_create_from_json(json_data, oid) ==
    [cls |-> "PikComfortMeter", oid |-> oid,
     id |-> json_data._uid, type |-> json_data._type,
     tariffs |-> create_from_json_list("Tariff", json_data.tariffs)]

\* create_from_json_list, resolved on PikComfortMeter
PikComfortMeter_create_from_json_list(json_data_list) ==
    [i \in 1..Len(json_data_list) |-> PikComfortMeter_create_from_json(json_data_list[i], i)]

\* --- Tariff.update_list_with_models
\* the inner `for existing_object in target_list` scan: 0 when the list is
\* empty; else -1, its test `tariff_type.type == tariff_type` reading the
\* attribute `type` of the payload's integer at the first element
tariff_find_existing(target_list_, tariff_type) ==
    IF target_list_ = <<>> THEN 0 ELSE -1

\* the first loop, from payload item k on: the scan raises AttributeError,
\* and after a scan that found nothing `cls.create_from_json(item_data)`
\* is a call without its api_object argument, a TypeError
tariff_merge_items(target_list_, json_data_list, k) ==
    IF k > Len(json_data_list) THEN [raised |-> "none", list |-> target_list_]
    ELSE IF tariff_find_existing(target_list_, json_data_list[k].type) = -1
    THEN [raised |-> "AttributeError", list |-> target_list_]
    ELSE [raised |-> "TypeError", list |-> target_list_]

\* the second loop over tuple(reversed(target_list)), from element k on
RECURSIVE tariff_evict_items(_, _, _, _)
tariff_evict_items(target_list_, snapshot, k, cleanup) ==
    IF k > Len(snapshot) THEN [raised |-> "none", list |-> target_list_]
    ELSE IF snapshot[k].type \notin cleanup
    THEN tariff_evict_items(list_remove(target_list_, snapshot[k]), snapshot, k + 1,
                            cleanup)
    ELSE tariff_evict_items(target_list_, snapshot, k + 1, cleanup \ {snapshot[k].type})

tariff_evict_merged(merged, cleanup) ==
    IF merged.raised # "none" THEN merged
    ELSE tariff_evict_items(merged.list, reversed(merged.list), 1, cleanup)

Tariff_update_list_with_models(target_list_, json_data_list) ==
    tariff_evict_merged(tariff_merge_items(target_list_, json_data_list, 1),
                        {json_data_list[k].type : k \in 1..Len(json_data_list)})

\* --- PikComfortMeter.update_from_json
\* the rest of update_from_json: the tariffs were reconciled with outcome r
PikComfortMeter_update_scalars(self, json_data, r) ==
    [raised |-> r.raised, obj |-> [self EXCEPT !.tariffs = r.list]]

PikComfortMeter_update_from_json(self, json_data) ==
    IF self.id # json_data._uid \/ self.type # json_data._type
    THEN [raised |-> "AssertionError", obj |-> self]
    ELSE PikComfortMeter_update_scalars(
             self, json_data,
             Tariff_update_list_with_models(self.tariffs, json_data.tariffs))

\* --- PikComfortAccount (`debt` stands for its scalar attributes but
\* `number`, which is assigned before it; its
\* premise, building and address formats are left out)
PikComfortAccount_create_from_json(json_data, oid) ==
    [cls |-> "PikComfortAccount", oid |-> oid,
     id |-> json_data._uid, type |-> json_data._type,
     number |-> or_none(json_get(json_data, "number")), debt |-> json_data.debt,
     tickets |-> create_from_json_list("PikComfortTicket", json_data.tickets),
     receipts |-> PikComfortReceipt_create_from_json_list(json_data.receipts),
     meters |-> PikComfortMeter_create_from_json_list(json_data.meters),
     payments |-> create_from_json_list("PikComfortPayment", json_data.payments)]

\* the rest of update_from_json: the receipts were reconciled with outcome r
PikComfortAccount_update_scalars(self, json_data, r) ==
    IF r.raised # "none"
    THEN [raised |-> r.raised, obj |-> [self EXCEPT !.receipts = r.list]]
    ELSE IF "number" \notin DOMAIN json_data
    THEN [raised |-> "KeyError", obj |-> [self EXCEPT !.receipts = r.list]]
    ELSE [raised |-> "none",
          obj |-> [self EXCEPT !.receipts = r.list, !.number = json_data.number,
                               !.debt = json_data.debt]]

\* the tickets were reconciled with outcome t
PikComfortAccount_update_receipts(self, json_data, t) ==
    IF t.raised # "none"
    THEN [raised |-> t.raised, obj |-> [self EXCEPT !.tickets = t.list]]
    ELSE PikComfortAccount_update_scalars(
             [self EXCEPT !.tickets = t.list], json_data,
             PikComfortReceipt_update_list_with_models(self.receipts, json_data.receipts))

PikComfortAccount_update_from_json(self, json_data) ==
    IF self.id # json_data._uid \/ self.type # json_data._type
    THEN [raised |-> "AssertionError", obj |-> self]
    ELSE PikComfortAccount_update_receipts(
             self, json_data,
             update_list_with_models("PikComfortTicket", self.tickets, json_data.tickets))

\* create_from_json_list, resolved on PikComfortAccount
PikComfortAccount_create_from_json_list(json_data_list) ==
    [i \in 1..Len(json_data_list) |-> PikComfortAccount_create_from_json(json_data_list[i], i)]

\* --- update_list_with_models, resolved on PikComfortAccount
\* the first loop, from payload item k on
RECURSIVE account_merge_items(_, _, _)

\* the payload item updated the account at index i, with outcome r
account_merge_updated(target_list_, json_data_list, k, i, r) ==
    IF r.raised # "none"
    THEN [raised |-> r.raised, list |-> [target_list_ EXCEPT ![i] = r.obj]]
    ELSE account_merge_items([target_list_ EXCEPT ![i] = r.obj], json_data_list, k + 1)

\* the inner scan ended with i
account_merge_found(target_list_, json_data_list, k, i) ==
    IF i = 0
    THEN account_merge_items(
             Append(target_list_,
                    PikComfortAccount_create_from_json(json_data_list[k],
                                                       new_oid(target_list_))),
             json_data_list, k + 1)
    ELSE account_merge_updated(
             target_list_, json_data_list, k, i,
             PikComfortAccount_update_from_json(target_list_[i], json_data_list[k]))

account_merge_items(target_list_, json_data_list, k) ==
    IF k > Len(json_data_list) THEN [raised |-> "none", list |-> target_list_]
    ELSE account_merge_found(target_list_, json_data_list, k,
                             find_existing(target_list_, json_data_list[k]._uid,
                                           json_data_list[k]._type, 1))

PikComfortAccount_update_list_with_models(target_list_, json_data_list) ==
    evict_merged(account_merge_items(target_list_, json_data_list, 1),
                 {<<json_data_list[k]._uid, json_data_list[k]._type>> :
                      k \in 1..Len(json_data_list)})

\* --- InfoResult with its accounts list (`phone` stands for its scalar
\* attributes); the snapshot held by the client is this object
InfoResult_create_from_json_accounts(json_data, oid) ==
    [cls |-> "InfoResult", oid |-> oid,
     id |-> json_data._uid, type |-> json_data._type, phone |-> json_data.phone,
     accounts |-> PikComfortAccount_create_from_json_list(json_data.accounts)]

\* the rest of update_from_json: the accounts were reconciled with outcome r
InfoResult_update_scalars(self, json_data, r) ==
    IF r.raised # "none"
    THEN [raised |-> r.raised, obj |-> [self EXCEPT !.accounts = r.list]]
    ELSE [raised |-> "none",
          obj |-> [self EXCEPT !.accounts = r.list, !.id = json_data._uid,
                               !.type = json_data._type, !.phone = json_data.phone]]

InfoResult_update_from_json_accounts(self, json_data) ==
    InfoResult_update_scalars(
        self, json_data,
        PikComfortAccount_update_list_with_models(self.accounts, json_data.accounts))

\* --------------------------------------------------------------------
\* SpecList: a list of TurnoverBalanceRecord, built by create_from_json_list
\* from a first payload and reconciled with the payloads that follow
\* --------------------------------------------------------------------
TurnoverPayloads == SeqsUpTo(TurnoverJson, MaxLen)

ListIdle ==
    /\ target_list = <<>>
    /\ list_op = [name |-> "none"]

\* what a list looks like from outside
oids(list) == {list[i].oid : i \in 1..Len(list)}
keys(list) == {<<list[i].id, list[i].type>> : i \in 1..Len(list)}
json_keys(json_data_list) ==
    {<<json_data_list[k]._uid, json_data_list[k]._type>> : k \in 1..Len(json_data_list)}
distinct_keys(list) ==
    \A i, j \in 1..Len(list) :
        (list[i].id = list[j].id /\ list[i].type = list[j].type) => i = j
by_oid(list, o) == list[CHOOSE i \in 1..Len(list) : list[i].oid = o]

\* list_op records the last call on the list: its payload, what it raised,
\* and whether it found distinct identities and constructed an instance,
\* kept one and removed one (a history kept for the properties; the code
\* reads none of it)
ListInit ==
    \E json_data_list \in TurnoverPayloads :
        /\ target_list = create_from_json_list("TurnoverBalanceRecord", json_data_list)
        /\ list_op = [name |-> "create", json_data_list |-> json_data_list,
                      raised |-> "none", mixed |-> FALSE]

ReconcileList(json_data_list) ==
    \E r \in {update_list_with_models("TurnoverBalanceRecord", target_list, json_data_list)} :
       /\ target_list' = r.list
       /\ list_op' = [name |-> "update", json_data_list |-> json_data_list,
                      raised |-> r.raised,
                      mixed |-> /\ distinct_keys(target_list)
                                /\ oids(r.list) \ oids(target_list) # {}
                                /\ oids(r.list) \cap oids(target_list) # {}
                                /\ oids(target_list) \ oids(r.list) # {}]

\* the value the payload gives a key: that of its last item with the key
last_total(json_data_list, key) ==
    LET k == CHOOSE k \in 1..Len(json_data_list) :
                /\ <<json_data_list[k]._uid, json_data_list[k]._type>> = key
                /\ \A m \in (k + 1)..Len(json_data_list) :
                       <<json_data_list[m]._uid, json_data_list[m]._type>> # key
    IN json_data_list[k].total

\* what the pass owes a list L of distinct identities, P the payload and R
\* the list it leaves
SetBased(L, P, R) ==
    /\ keys(R) = json_keys(P)
    /\ distinct_keys(R)
    /\ \A i \in 1..Len(R) :
         LET o == R[i]
             key == <<o.id, o.type>>
         IN /\ o.total = last_total(P, key)
            /\ key \in keys(L) =>
                  /\ o.oid \in oids(L)
                  /\ by_oid(L, o.oid).id = o.id
                  /\ by_oid(L, o.oid).type = o.type
            /\ key \notin keys(L) =>
                  /\ o.oid \notin oids(L)
                  /\ \A j \in 1..Len(R) : R[j].oid \in oids(L) => j < i

\* C5: reconciling a list of distinct identities with any payload returns and
\* leaves exactly the payload's identities, once each: an identity the list
\* had keeps its instance and carries the payload's value, an identity it
\* lacked is a new instance placed after every kept one, and the identities
\* the payload lacks are gone.
C5_ReconcileIsSetBased ==
    [][(list_op'.name = "update" /\ distinct_keys(target_list)) =>
            /\ list_op'.raised = "none"
            /\ SetBased(target_list, list_op'.json_data_list, target_list')]_vars

\* C5 witness: one pass over a list of distinct identities has returned after
\* constructing one record, keeping another and removing a third.
C5_Witness ==
    /\ list_op.name = "update"
    /\ list_op.raised = "none"
    /\ list_op.mixed
    /\ keys(target_list) = json_keys(list_op.json_data_list)

\* C10: no list of the model holds two records with the same identity key,
\* after the construction from the first payload and after every pass.
C10_KeysUniqueInList == distinct_keys(target_list)

\* --------------------------------------------------------------------
\* SpecAttachments: the attachments of a ticket, built by
\* create_from_json_list from a first payload and reconciled with the
\* payloads that follow
\* --------------------------------------------------------------------
AttachmentJson ==
    { [uid |-> "a1", name |-> "old"],
      [uid |-> "a1", name |-> "new"],
      [uid |-> "a2", name |-> "old"] }

AttachmentPayloads == SeqsUpTo(AttachmentJson, MaxAttachments)

AttachmentsIdle ==
    /\ attachments = <<>>
    /\ attachments_op = [name |-> "none"]

AttachmentsInit ==
    \E json_data_list \in AttachmentPayloads :
        /\ attachments = create_from_json_list("PikComfortAttachmentImage", json_data_list)
        /\ attachments_op = [name |-> "create", json_data_list |-> json_data_list,
                             raised |-> "none"]

ReconcileAttachments(json_data_list) ==
    \E r \in {PikComfortAttachmentImage_update_list_with_models(attachments, json_data_list)} :
       /\ attachments' = r.list
       /\ attachments_op' = [name |-> "update", json_data_list |-> json_data_list,
                             raised |-> r.raised]

ids(list) == {list[i].id : i \in 1..Len(list)}
json_uids(json_data_list) == {json_data_list[k].uid : k \in 1..Len(json_data_list)}
index_of(list, o) == CHOOSE i \in 1..Len(list) : list[i].oid = o

\* what the pass owes a list L whose identities the payload P partly omits,
\* R the list it leaves
OnlyOmittedRemoved(L, P, R) ==
    /\ \A i \in 1..Len(L) : L[i].oid \in oids(R) <=> L[i].id \in json_uids(P)
    /\ \A i \in 1..Len(R) : R[i].id \in ids(L) => R[i].oid \in oids(L)
    /\ \A i, j \in 1..Len(R) :
          (i < j /\ R[j].oid \in oids(L)) =>
              /\ R[i].oid \in oids(L)
              /\ index_of(L, R[i].oid) < index_of(L, R[j].oid)

\* C6: a pass whose payload omits some identity of the list removes the
\* instances with the omitted identities and no other; every kept identity is
\* the instance it was, the kept instances stay in their order and precede
\* the constructed ones.
C6_OnlyOmittedRemoved ==
    [][(attachments_op'.name = "update" /\ attachments_op'.raised = "none"
            /\ ids(attachments) \ json_uids(attachments_op'.json_data_list) # {}) =>
          OnlyOmittedRemoved(attachments, attachments_op'.json_data_list, attachments')]_vars

\* --------------------------------------------------------------------
\* SpecReceipts: the receipts of an account
\* --------------------------------------------------------------------
ContentJson == [_uid |-> "c1", _type |-> "content", total |-> "old"]

ReceiptJson ==
    { [_type |-> "receipt", period |-> [date |-> "2021-01-01", rest |-> ""],
       total |-> "old", main |-> <<>>],
      [_type |-> "receipt", period |-> [date |-> "2021-01-01", rest |-> "T00:00:00"],
       total |-> "new", main |-> <<ContentJson>>],
      [_type |-> "receipt", period |-> [date |-> "2021-02-01", rest |-> ""],
       total |-> "old", main |-> <<ContentJson>>],
      [_type |-> "other", period |-> [date |-> "2021-01-01", rest |-> ""],
       total |-> "old", main |-> <<>>] }

ReceiptPayloads == SeqsUpTo(ReceiptJson, MaxLen)

ReceiptsIdle ==
    /\ receipts = <<>>
    /\ receipts_op = [name |-> "none"]

ReceiptsInit ==
    \E json_data_list \in ReceiptPayloads :
        /\ receipts = PikComfortReceipt_create_from_json_list(json_data_list)
        /\ receipts_op = [name |-> "create", json_data_list |-> json_data_list,
                          raised |-> "none"]

ReconcileReceipts(json_data_list) ==
    \E r \in {PikComfortReceipt_update_list_with_models(receipts, json_data_list)} :
       /\ receipts' = r.list
       /\ receipts_op' = [name |-> "update", json_data_list |-> json_data_list,
                          raised |-> r.raised]

\* C7: a pass that repeats the payload of the pass before it, which
\* returned, returns too and leaves the list as it found it: the same
\* instances, in the same order, with the same values.
C7_SecondPassChangesNothing ==
    [][(receipts_op.name = "update" /\ receipts_op.raised = "none"
            /\ receipts_op'.name = "update"
            /\ receipts_op'.json_data_list = receipts_op.json_data_list) =>
          (receipts_op'.raised = "none" /\ receipts' = receipts)]_vars

\* the receipt of the list with that type and period is the same instance
\* in `after`, and each of its content lines that is still there is the
\* same instance too
receipt_kept(before, after, i) ==
    \E j \in 1..Len(after) :
        /\ after[j].type = before[i].type /\ after[j].period = before[i].period
        /\ after[j].oid = before[i].oid
        /\ \A k \in 1..Len(before[i].contents), m \in 1..Len(after[j].contents) :
               (/\ is_object(before[i].contents[k])
                /\ before[i].contents[k].id = after[j].contents[m].id) =>
                   before[i].contents[k].oid = after[j].contents[m].oid

\* C24: every reconciliation of the receipts with a snapshot succeeds,
\* whatever snapshots came before; it leaves in every receipt a list of
\* content records; and, the receipts having distinct (type, period), a
\* receipt whose (type, period) is in the snapshot stays the same
\* instance, with the same instances of the content lines that persist.
C24_ReceiptsKeptByTypeAndPeriod ==
    [][receipts_op'.name = "update" =>
          /\ receipts_op'.raised = "none"
          /\ \A j \in 1..Len(receipts') :
                 \A m \in 1..Len(receipts'[j].contents) :
                     is_object(receipts'[j].contents[m])
          /\ (\A i, j \in 1..Len(receipts) :
                   (receipts[i].type = receipts[j].type
                        /\ receipts[i].period = receipts[j].period) => i = j) =>
                 \A i \in 1..Len(receipts) :
                     (\E k \in 1..Len(receipts_op'.json_data_list) :
                          /\ receipts_op'.json_data_list[k]._type = receipts[i].type
                          /\ fromisoformat_date(receipts_op'.json_data_list[k].period)
                                 = receipts[i].period) =>
                         receipt_kept(receipts, receipts', i)]_vars

\* --------------------------------------------------------------------
\* SpecRecord: one identifiable record, built by create_from_json and
\* updated with the payloads that follow
\* --------------------------------------------------------------------
RecordClasses ==
    {"InfoResult", "PikComfortPremise", "PikComfortBuilding", "PikComfortTicket",
     "TurnoverBalanceRecord"}

\* the payload of a class: identity and the scalar of the class
json_of(cls, uid, type, value) ==
    CASE cls = "InfoResult" -> [_uid |-> uid, _type |-> type, phone |-> value]
      [] cls \in {"PikComfortPremise", "PikComfortBuilding"} ->
             [_uid |-> uid, _type |-> type, address |-> value]
      [] cls = "PikComfortTicket" ->
             [_uid |-> uid, _type |-> type, description |-> value, attachments |-> <<>>]
      [] cls = "TurnoverBalanceRecord" -> [_uid |-> uid, _type |-> type, total |-> value]

RecordJson(cls) ==
    {json_of(cls, uid, type, value) :
        uid \in {"u1", "u2"}, type \in {"A", "B"}, value \in {"old", "new"}}

RecordIdle ==
    /\ record = [cls |-> "none"]
    /\ record_op = [name |-> "none"]

\* record_op.constructed is the identity the record was built with (a
\* history kept for the properties; the code reads none of it)
RecordInit ==
    \E cls \in RecordClasses : \E json_data \in RecordJson(cls) :
        /\ record = create_from_json(cls, json_data, 1)
        /\ record_op = [name |-> "create", json_data |-> json_data, raised |-> "none",
                        constructed |-> <<json_data._uid, json_data._type>>]

UpdateRecord(json_data) ==
    \E r \in {update_from_json(record, json_data)} :
       /\ record' = r.obj
       /\ record_op' = [name |-> "update", json_data |-> json_data, raised |-> r.raised,
                        constructed |-> record_op.constructed]

\* C8: whatever the payloads, a record carries the id and type it was
\* constructed with after every update_from_json that returned.
C8_IdentityKept ==
    (record_op.name = "update" /\ record_op.raised = "none") =>
        <<record.id, record.type>> = record_op.constructed

\* C9: update_from_json with a payload whose id or type is not the record's
\* raises and leaves the record as it was.
C9_MismatchRaises ==
    [][(record_op'.name = "update"
            /\ <<record_op'.json_data._uid, record_op'.json_data._type>>
                   # <<record.id, record.type>>) =>
          (record_op'.raised # "none" /\ record' = record)]_vars

\* --------------------------------------------------------------------
\* SpecAccount: one account, built by create_from_json from a first
\* snapshot and updated with the snapshots that follow
\* --------------------------------------------------------------------
TicketJson ==
    [_uid |-> "t1", _type |-> "ticket", description |-> "old", attachments |-> <<>>]
PointDetailsJson == [icon_name |-> "old", color |-> "old"]
PaymentJson ==
    [_uid |-> "p1", _type |-> "payment", payment_date |-> 1,
     payment_point_details |-> PointDetailsJson]
MeterJson ==
    { [_uid |-> "m1", _type |-> "meter",
       tariffs |-> <<[type |-> 1, value |-> 100, user_value |-> NoneNum]>>],
      [_uid |-> "m1", _type |-> "meter",
       tariffs |-> <<[type |-> 1, value |-> 150, user_value |-> NoneNum]>>] }

AccountJson ==
    { [_uid |-> "a1", _type |-> "account", number |-> "1001", debt |-> d, tickets |-> t,
       receipts |-> r, meters |-> m, payments |-> p] :
        d \in {"old", "new"},
        t \in {<<>>, <<TicketJson>>},
        r \in {<<>>, <<[_type |-> "receipt",
                         period |-> [date |-> "2021-02-01", rest |-> ""],
                         total |-> "old", main |-> <<>>]>>},
        m \in {<<>>} \cup {<<j>> : j \in MeterJson},
        p \in {<<>>, <<PaymentJson>>} }

AccountIdle ==
    /\ account = [cls |-> "none"]
    /\ account_op = [name |-> "none"]

AccountInit ==
    \E json_data \in AccountJson :
        /\ account = PikComfortAccount_create_from_json(json_data, 1)
        /\ account_op = [name |-> "create", json_data |-> json_data, raised |-> "none"]

UpdateAccount(json_data) ==
    \E r \in {PikComfortAccount_update_from_json(account, json_data)} :
       /\ account' = r.obj
       /\ account_op' = [name |-> "update", json_data |-> json_data, raised |-> r.raised]

\* a record without the identity of its instance, and the records of a list
\* without their order
content(o) == [f \in DOMAIN o \ {"oid"} |-> o[f]]
contents_of(list) == {content(list[i]) : i \in 1..Len(list)}

\* C11: after an update that returned, the account holds what
\* create_from_json builds from the same snapshot: the same scalar, and in
\* each owned collection (tickets, receipts, meters with their tariffs,
\* payments) the same records, whatever their order and their instances.
C11_UpdateEqualsCreate ==
    (account_op.name = "update" /\ account_op.raised = "none") =>
        LET fresh == PikComfortAccount_create_from_json(account_op.json_data, 1)
        IN /\ account.debt = fresh.debt
           /\ contents_of(account.tickets) = contents_of(fresh.tickets)
           /\ contents_of(account.payments) = contents_of(fresh.payments)
           /\ {[content(m) EXCEPT !.tariffs = contents_of(m.tariffs)] :
                   m \in {account.meters[i] : i \in 1..Len(account.meters)}}
              = {[content(m) EXCEPT !.tariffs = contents_of(m.tariffs)] :
                   m \in {fresh.meters[i] : i \in 1..Len(fresh.meters)}}
           /\ {[content(r) EXCEPT !.contents = contents_of(r.contents)] :
                   r \in {account.receipts[i] : i \in 1..Len(account.receipts)}}
              = {[content(r) EXCEPT !.contents = contents_of(r.contents)] :
                   r \in {fresh.receipts[i] : i \in 1..Len(fresh.receipts)}}

\* --------------------------------------------------------------------
\* SpecLast: the account properties last_payment and last_receipt, read
\* on accounts with every short list of payments and of receipts
\* --------------------------------------------------------------------
MaxPayments == 3      \* longest list of payments, and of receipts, of an account
MaxTimestamp == 2     \* instants a payment may carry

None == [cls |-> "NoneType"]

\* --- enumerate(list): the pairs (index from 0, item)
enumerate(list) == [i \in 1..Len(list) |-> <<i - 1, list[i]>>]

\* --- date.__lt__ orders dates as their proleptic Gregorian ordinals
toordinal(d) ==
    CASE d = "2021-01-01" -> 737791
      [] d = "2021-02-01" -> 737822
      [] d = "2021-03-01" -> 737850

\* --- tuple.__lt__ on pairs of numbers
tuple_lt(a, b) == a[1] < b[1] \/ (a[1] = b[1] /\ a[2] < b[2])

\* --- sorted(..., reverse=True) on a list of <<key, item>>: descending by
\* key, items with equal keys in their original order
RECURSIVE insert_reverse(_, _)
insert_reverse(done, e) ==
    IF done = <<>> THEN <<e>>
    ELSE IF tuple_lt(done[1][1], e[1]) THEN <<e>> \o done
    ELSE <<done[1]>> \o insert_reverse(Tail(done), e)

RECURSIVE sorted_reverse(_)
sorted_reverse(keyed) ==
    IF keyed = <<>> THEN <<>>
    ELSE insert_reverse(sorted_reverse(SubSeq(keyed, 1, Len(keyed) - 1)),
                        keyed[Len(keyed)])

\* --- next(iter(s))[1], with StopIteration caught: the item of the first pair
first_item(s) == IF s = <<>> THEN None ELSE s[1][2][2]

\* key=lambda x: (x[1].timestamp, x[0]): the index counted upwards
last_payment_key_index_ascending(x) == <<x[2].timestamp, x[1]>>

\* --- key=lambda x: (x[1].timestamp, -x[0])
last_payment_key(x) == <<x[2].timestamp, -x[1]>>

\* --- key=lambda x: (x[1].period, -x[0])
last_receipt_key(x) == <<toordinal(x[2].period), -x[1]>>

last_payment(self) ==
    first_item(sorted_reverse([i \in 1..Len(self.payments) |->
        <<last_payment_key(enumerate(self.payments)[i]), enumerate(self.payments)[i]>>]))

last_receipt(self) ==
    first_item(sorted_reverse([i \in 1..Len(self.receipts) |->
        <<last_receipt_key(enumerate(self.receipts)[i]), enumerate(self.receipts)[i]>>]))

LedgerPaymentJson ==
    {[_uid |-> "p1", _type |-> "payment", payment_date |-> t,
      payment_point_details |-> PointDetailsJson] : t \in 1..MaxTimestamp}

LedgerReceiptJson ==
    {[_type |-> "receipt", period |-> [date |-> d, rest |-> ""],
      total |-> "old", main |-> <<>>] : d \in {"2021-01-01", "2021-02-01"}}

LedgerJson ==
    { [_uid |-> "a1", _type |-> "account", debt |-> "old", tickets |-> <<>>,
       receipts |-> r, meters |-> <<>>, payments |-> p] :
        r \in SeqsUpTo(LedgerReceiptJson, MaxPayments),
        p \in SeqsUpTo(LedgerPaymentJson, MaxPayments) }

LedgerInit ==
    \E json_data \in LedgerJson :
        /\ account = PikComfortAccount_create_from_json(json_data, 1)
        /\ account_op = [name |-> "create", json_data |-> json_data, raised |-> "none"]

LastPayment ==
    /\ account_op' = [name |-> "last_payment", result |-> last_payment(account)]
    /\ UNCHANGED account

LastReceipt ==
    /\ account_op' = [name |-> "last_receipt", result |-> last_receipt(account)]
    /\ UNCHANGED account

\* the item of the list with the greatest rank, the earliest of them
greatest_earliest(list, rank(_), result) ==
    IF list = <<>> THEN result = None
    ELSE \E i \in 1..Len(list) :
            /\ result = list[i]
            /\ \A j \in 1..Len(list) : rank(list[j]) <= rank(list[i])
            /\ \A j \in 1..(i - 1) : rank(list[j]) < rank(list[i])

timestamp_of(payment) == payment.timestamp
period_of(receipt) == toordinal(receipt.period)

\* C12: last_payment is None on an account without payments; otherwise it
\* is the payment with the greatest timestamp, and among the payments
\* that share that timestamp the one that comes first in the list.
\* last_receipt is the same on the receipts and their periods.
C12_LastIsGreatestEarliest ==
    /\ account_op.name = "last_payment" =>
           greatest_earliest(account.payments, timestamp_of, account_op.result)
    /\ account_op.name = "last_receipt" =>
           greatest_earliest(account.receipts, period_of, account_op.result)

\* C12: the greatest timestamp is shared by two payments that come after
\* an earlier, smaller one, and the first of the two was returned
C12_Witness ==
    /\ account_op.name = "last_payment"
    /\ Len(account.payments) = 3
    /\ account.payments[1].timestamp < account.payments[2].timestamp
    /\ account.payments[2].timestamp = account.payments[3].timestamp
    /\ account_op.result = account.payments[2]

\* --------------------------------------------------------------------
\* SpecClassifier: the classifier forest cached by the client and the
\* walk of TicketClassifier.path_from, one turn of its loop at a time
\* --------------------------------------------------------------------
MaxClassifiers == 3   \* longest classifier list the client caches

ApiIdle ==
    /\ api = [cls |-> "none"]
    /\ api_op = [name |-> "none"]

\* --- Optional[List[...]]: None, or a list
NoneList == [is_none |-> TRUE, items |-> <<>>]
SomeList(list) == [is_none |-> FALSE, items |-> list]

\* create_from_json_list, resolved on TicketClassifier
TicketClassifier_create_from_json_list(json_data_list) ==
    [k \in 1..Len(json_data_list) |->
        TicketClassifier_create_from_json(json_data_list[k], k)]

\* --- TicketClassifier.parent: the first cached classifier whose id is
\* parent_id, None when there is none or when parent_id is empty
RECURSIVE first_with_id(_, _, _)
first_with_id(classifiers, id, i) ==
    IF i > Len(classifiers) THEN None
    ELSE IF classifiers[i].id = id THEN classifiers[i]
    ELSE first_with_id(classifiers, id, i + 1)

parent(self, classifiers) ==
    IF self.parent_id = NoneStr \/ self.parent_id = ""
    THEN [raised |-> "none", obj |-> None]
    ELSE IF classifiers.is_none
    THEN [raised |-> "Classifiers must be updated", obj |-> None]
    ELSE [raised |-> "none", obj |-> first_with_id(classifiers.items, self.parent_id, 1)]

\* path_item in path, never true
in_path_unchecked(path, path_item) == FALSE

\* --- path_item in path: some item of the path compares equal to it
in_path(path, path_item) == \E i \in 1..Len(path) : attrs_eq(path[i], path_item)

ClassifierIds == <<"A", "B", "C", "D">>

ClassifierJson(k) ==
    {[_uid |-> ClassifierIds[k], _type |-> "classifier", name |-> "n", parent |-> p] :
        p \in {NoneStr} \cup {ClassifierIds[j] : j \in 1..MaxClassifiers}}

ClassifierPayloads ==
    UNION {[1..n -> UNION {ClassifierJson(k) : k \in 1..MaxClassifiers}] :
              n \in 0..MaxClassifiers}

ClassifierLists ==
    {json_data_list \in ClassifierPayloads :
        \A k \in 1..Len(json_data_list) : json_data_list[k] \in ClassifierJson(k)}

Walking == api_op.name = "path_from" /\ api_op.pc = "while"

ClassifierInit ==
    \E json_data_list \in ClassifierLists :
        /\ api = [cls |-> "PikComfortAPI", token |-> "token", _user_id |-> "user",
                  _classifiers |->
                      SomeList(TicketClassifier_create_from_json_list(json_data_list))]
        /\ api_op = [name |-> "none"]

\* --- TicketClassifier.path_to, over the tuple path_from has returned
path_to(path_from) == reversed(path_from)

\* self.path_from[0:], the whole path
parents_with_self(path_from) == SubSeq(path_from, 1, Len(path_from))

\* --- TicketClassifier.parents: self.path_from[1:]
parents(path_from) == SubSeq(path_from, 2, Len(path_from))

ClassifierProperties == {"path_from", "path_to", "parents"}

\* what the property read returns once its walk has returned `path`
property_result(property, path) ==
    CASE property = "path_from" -> path
      [] property = "path_to" -> path_to(path)
      [] property = "parents" -> parents(path)

\* a read of path_from, path_to or parents of the i-th cached classifier
\* enters path_from: path = []; path_item = self
PathFrom(i, property) ==
    /\ ~Walking
    /\ i \in 1..Len(api._classifiers.items)
    /\ api_op' = [name |-> "path_from", pc |-> "while", self |-> api._classifiers.items[i],
                  path |-> <<>>, path_item |-> api._classifiers.items[i],
                  raised |-> "none", property |-> property, result |-> <<>>]
    /\ UNCHANGED api

\* the rest of a turn of the loop, the parent of path_item being r
PathFromAdvance(r) ==
    IF r.raised # "none"
    THEN [api_op EXCEPT !.pc = "raised", !.raised = r.raised,
                        !.path = Append(api_op.path, api_op.path_item)]
    ELSE [api_op EXCEPT !.path = Append(api_op.path, api_op.path_item),
                        !.path_item = r.obj]

\* one test of the while condition and, when it holds, one turn of the loop
PathFromStep ==
    /\ Walking
    /\ api_op' = IF api_op.path_item = None
                 THEN [api_op EXCEPT !.pc = "returned",
                                     !.result = property_result(api_op.property,
                                                                api_op.path)]
                 ELSE IF in_path(api_op.path, api_op.path_item)
                 THEN [api_op EXCEPT !.pc = "raised", !.raised = "Path loop detected"]
                 ELSE PathFromAdvance(parent(api_op.path_item, api._classifiers))
    /\ UNCHANGED api

\* following parent ids upward from `self` comes back to a classifier
\* already met: the ids met after n steps, and whether a step repeats one
RECURSIVE ids_upward(_, _, _)
ids_upward(classifiers, c, n) ==
    IF n = 0 \/ c = None THEN <<>>
    ELSE <<c.id>> \o ids_upward(classifiers, parent(c, classifiers).obj, n - 1)

revisits(classifiers, c) ==
    LET up == ids_upward(classifiers, c, Len(classifiers.items) + 1)
    IN \E i, j \in 1..Len(up) : i < j /\ up[i] = up[j]

\* C13: a walk never holds a classifier twice on its path, so it is no
\* longer than the cached list; a walk that has ended raised "Path loop
\* detected" exactly when following parent ids upward from its start
\* revisits a classifier, and returned a path otherwise; and every walk
\* that has started ends.
C13_PathFromTerminates ==
    /\ [](api_op.name = "path_from" =>
            /\ \A i, j \in 1..Len(api_op.path) : i # j => api_op.path[i] # api_op.path[j]
            /\ Len(api_op.path) <= Len(api._classifiers.items)
            /\ api_op.pc = "raised" =>
                   (api_op.raised = "Path loop detected"
                        /\ revisits(api._classifiers, api_op.self))
            /\ api_op.pc = "returned" => ~revisits(api._classifiers, api_op.self))
    /\ (Walking ~> ~Walking)

\* C13: the walk from A over the cycle A -> B -> C -> A has ended, raising
\* the loop error with A, B and C on its path
C13_Witness ==
    /\ api_op.name = "path_from"
    /\ api_op.pc = "raised"
    /\ api_op.raised = "Path loop detected"
    /\ [i \in 1..Len(api_op.path) |-> api_op.path[i].id] = <<"A", "B", "C">>
    /\ api_op.path_item.id = "A"

\* the chain of parent links from `self` through the cached classifiers:
\* it starts with `self`, every next element is a cached classifier whose
\* id is the parent_id of the one before it, and the last element has no
\* parent_id or one that no cached classifier carries
parent_chain(classifiers, self, chain) ==
    /\ Len(chain) >= 1
    /\ chain[1] = self
    /\ \A i \in 1..(Len(chain) - 1) :
           /\ chain[i].parent_id # NoneStr
           /\ chain[i + 1].id = chain[i].parent_id
           /\ \E k \in 1..Len(classifiers) : classifiers[k] = chain[i + 1]
    /\ \/ chain[Len(chain)].parent_id = NoneStr
       \/ \A k \in 1..Len(classifiers) :
              classifiers[k].id # chain[Len(chain)].parent_id

\* C28: over cached classifiers whose parent links never come back to a
\* classifier already met, a read that has ended has returned: path_from
\* the chain of parent links that starts with the classifier itself,
\* path_to that chain in reverse order, the oldest ancestor first, and
\* parents that chain without its first element.
C28_PathsFollowParentLinks ==
    (api_op.name = "path_from" /\ ~Walking
         /\ ~revisits(api._classifiers, api_op.self)) =>
        /\ api_op.pc = "returned"
        /\ parent_chain(api._classifiers.items, api_op.self, api_op.path)
        /\ api_op.property = "path_from" => api_op.result = api_op.path
        /\ api_op.property = "path_to" =>
               /\ Len(api_op.result) = Len(api_op.path)
               /\ \A i \in 1..Len(api_op.path) :
                      api_op.result[i] = api_op.path[Len(api_op.path) + 1 - i]
        /\ api_op.property = "parents" =>
               /\ Len(api_op.result) = Len(api_op.path) - 1
               /\ \A i \in 1..Len(api_op.result) : api_op.result[i] = api_op.path[i + 1]

\* C28: path_to of A, whose parent is B, whose parent is C, which has no
\* parent, has returned C, B, A
C28_Witness ==
    /\ api_op.name = "path_from"
    /\ api_op.pc = "returned"
    /\ api_op.property = "path_to"
    /\ api_op.self.id = "A"
    /\ [i \in 1..Len(api_op.result) |-> api_op.result[i].id] = <<"C", "B", "A">>

\* C28: parents of A, whose parent B names a parent that is not cached,
\* has returned B alone
C28_WitnessParents ==
    /\ api_op.name = "path_from"
    /\ api_op.pc = "returned"
    /\ api_op.property = "parents"
    /\ api_op.self.id = "A"
    /\ Len(api._classifiers.items) = 2
    /\ api._classifiers.items[2].parent_id = "C"
    /\ [i \in 1..Len(api_op.result) |-> api_op.result[i].id] = <<"B">>

\* --------------------------------------------------------------------
\* The PikComfortAPI client: exceptions, the HTTP transport, async_request
\* --------------------------------------------------------------------
DEFAULT_EXPECTED_STATUS == 200
HTTP_CREATED == 201

\* --- the exception classes with the classes each of them derives from
bases(cls) ==
    CASE cls = "ServerError" ->
             {"ServerError", "RequestError", "PikComfortException", "Exception"}
      [] cls = "RequestError" -> {"RequestError", "PikComfortException", "Exception"}
      [] cls = "PikComfortException" -> {"PikComfortException", "Exception"}
      [] OTHER -> {cls, "Exception"}

isinstance(exception, cls) == cls \in bases(exception)

\* --- how a call ends: with an exception or with a value; `requests` are
\* the HTTP requests it handed to the session
raises(cls, args, requests) ==
    [raised |-> cls, args |-> args, data |-> None, requests |-> requests]

returns(data, requests) ==
    [raised |-> "none", args |-> <<>>, data |-> data, requests |-> requests]

\* --- PikComfortAPI.is_authenticated
is_authenticated(self) == self.token # NoneStr

\* --- what the session answers to a request: a connection failure
\* (aiohttp.ClientError), a timeout (asyncio.TimeoutError), or a response
\* with a status and a body that response.json() decodes (is_json) or
\* refuses with ContentTypeError, a ClientError
HttpStatuses == {DEFAULT_EXPECTED_STATUS, HTTP_CREATED, 400}

ErrorBodies ==
    { [type |-> "object", obj |-> [code |-> "invalid", message |-> "Wrong code"]],
      [type |-> "object", obj |-> [code |-> "throttled"]],
      [type |-> "object", obj |-> [detail |-> "Not found"]],
      [type |-> "array", items |-> <<>>] }

HttpResponse(status, body) ==
    [kind |-> "response", status |-> status, is_json |-> TRUE, body |-> body]

TextResponse(status) ==
    [kind |-> "response", status |-> status, is_json |-> FALSE, body |-> [type |-> "text"]]

Failures == {[kind |-> "ClientError"], [kind |-> "TimeoutError"]}

Responses ==
    Failures \cup {HttpResponse(s, b) : s \in HttpStatuses, b \in ErrorBodies}
             \cup {TextResponse(s) : s \in HttpStatuses}

\* expected_status is not None and response_status != expected_status, never true
status_unexpected_ignored(expected_status, response_status) == FALSE

\* --- expected_status is not None and response_status != expected_status
status_unexpected(expected_status, response_status) ==
    expected_status # NoneNum /\ response_status # expected_status

\* --- the branch of a response with an unexpected status
error_response(response, requests) ==
    IF ~response.is_json
    THEN \* json() raises ClientError, the text is read and logged, and the
         \* json() that follows raises again
         raises("RequestError", <<"Client error", response.status, None>>, requests)
    ELSE IF response.body.type # "object"
    THEN raises("TypeError", <<>>, requests)
    ELSE IF "code" \notin DOMAIN response.body.obj
    THEN raises("RequestError",
                <<"Unexpected response", response.status, response.body>>, requests)
    ELSE raises("ServerError",
                <<"Server error", response.status, response.body, response.body.obj.code,
                  IF "message" \in DOMAIN response.body.obj
                  THEN response.body.obj.message ELSE NoneStr>>,
                requests)

\* a faulty variant of the try block: a request that failed to connect or
\* timed out is handed to the session a second time
session_request_resending(expected_status, response, requests) ==
    CASE response.kind = "ClientError" ->
             raises("RequestError", <<"Client error", None, None>>, requests \o requests)
      [] response.kind = "TimeoutError" ->
             raises("RequestError", <<"Timeout error", None, None>>, requests \o requests)
      [] response.kind = "response" ->
             IF status_unexpected(expected_status, response.status)
             THEN error_response(response, requests)
             ELSE IF ~response.is_json
             THEN raises("RequestError", <<"Client error", response.status, None>>,
                         requests)
             ELSE returns(response.body, requests)

\* --- the try block of async_request
session_request(expected_status, response, requests) ==
    CASE response.kind = "ClientError" ->
             raises("RequestError", <<"Client error", None, None>>, requests)
      [] response.kind = "TimeoutError" ->
             raises("RequestError", <<"Timeout error", None, None>>, requests)
      [] response.kind = "response" ->
             IF status_unexpected(expected_status, response.status)
             THEN error_response(response, requests)
             ELSE IF ~response.is_json
             THEN raises("RequestError", <<"Client error", response.status, None>>,
                         requests)
             ELSE returns(response.body, requests)

\* --- PikComfortAPI.async_request; `authenticated` is "None", "True" or
\* "False", the Authorization header is <<"Token ", token>> or absent
async_request(self, sub_url, authenticated, expected_status, data, response) ==
    IF authenticated # "False" /\ ~is_authenticated(self) /\ authenticated = "True"
    THEN raises("PikComfortException", <<"Account is not authenticated">>, <<>>)
    ELSE session_request(
             expected_status, response,
             <<[url |-> sub_url, data |-> data,
                authorization |-> IF authenticated # "False" /\ is_authenticated(self)
                                  THEN <<"Token ", self.token>> ELSE <<>>]>>)

\* --- PikComfortAPI.__init__
PikComfortAPI_init(username, token) ==
    [cls |-> "PikComfortAPI", username |-> username, token |-> token,
     _user_id |-> NoneStr, _classifiers |-> NoneList, _info |-> None]

\* --------------------------------------------------------------------
\* SpecRequest: async_request on every answer of the session
\* --------------------------------------------------------------------
RequestInit ==
    \E token \in {NoneStr, "token"} :
        /\ api = PikComfortAPI_init("79001234567", token)
        /\ api_op = [name |-> "none"]

AsyncRequest(authenticated, expected_status, response) ==
    /\ api_op' = [name |-> "async_request", authenticated |-> authenticated,
                  expected_status |-> expected_status, response |-> response,
                  result |-> async_request(api, "/", authenticated, expected_status,
                                           <<>>, response)]
    /\ UNCHANGED api

\* C17: a request that reached the session and was answered with a status
\* other than the expected one ends with an exception and no payload; when
\* the body is a JSON object with a code, the exception is a ServerError
\* with the status, the decoded body, the code and the message (None when
\* the body has none). A connection failure or a timeout ends with a
\* RequestError of three arguments, none of them a code. A ServerError is
\* an instance of RequestError.
C17_UnexpectedStatusNeverReturns ==
    api_op.name = "async_request" =>
        /\ (/\ api_op.result.requests # <<>>
            /\ api_op.response.kind = "response"
            /\ api_op.expected_status # NoneNum
            /\ api_op.response.status # api_op.expected_status) =>
               /\ api_op.result.raised # "none"
               /\ api_op.result.data = None
               /\ (/\ api_op.response.is_json
                   /\ api_op.response.body.type = "object"
                   /\ "code" \in DOMAIN api_op.response.body.obj) =>
                      /\ api_op.result.raised = "ServerError"
                      /\ Len(api_op.result.args) = 5
                      /\ api_op.result.args[2] = api_op.response.status
                      /\ api_op.result.args[3] = api_op.response.body
                      /\ api_op.result.args[4] = api_op.response.body.obj.code
                      /\ api_op.result.args[5] =
                             IF "message" \in DOMAIN api_op.response.body.obj
                             THEN api_op.response.body.obj.message ELSE NoneStr
        /\ (api_op.result.requests # <<>> /\ api_op.response \in Failures) =>
               (api_op.result.raised = "RequestError" /\ Len(api_op.result.args) = 3)
        /\ api_op.result.raised = "ServerError" =>
               isinstance(api_op.result.raised, "RequestError")

\* C17: a request expecting 200 was answered 400 with a JSON body that
\* carries a code and a message, and ended with a ServerError
C17_Witness ==
    /\ api_op.name = "async_request"
    /\ api_op.expected_status = DEFAULT_EXPECTED_STATUS
    /\ api_op.response = HttpResponse(400, [type |-> "object",
                             obj |-> [code |-> "invalid", message |-> "Wrong code"]])
    /\ api_op.result.raised = "ServerError"
    /\ api_op.result.args[5] = "Wrong code"

\* --------------------------------------------------------------------
\* SpecAuth: async_authenticate_otp on every answer of the session
\* --------------------------------------------------------------------
\* the bodies the verify endpoint may answer with status 200: both
\* credentials, one of them, a null token
OtpBodies ==
    { [type |-> "object", obj |-> [user |-> "user1", token |-> "bearer1"]],
      [type |-> "object", obj |-> [user |-> "user2", token |-> "bearer2"]],
      [type |-> "object", obj |-> [user |-> "user1", token |-> NoneStr]],
      [type |-> "object", obj |-> [user |-> "user1"]],
      [type |-> "object", obj |-> [token |-> "bearer1"]] }

OtpResponses ==
    Responses \cup {HttpResponse(DEFAULT_EXPECTED_STATUS, b) : b \in OtpBodies}

\* user_id = resp_data.get("user"); token = resp_data.get("token")
otp_credentials_defaulted(resp_data) ==
    [raised |-> "none",
     user |-> IF resp_data.type = "object" /\ "user" \in DOMAIN resp_data.obj
              THEN resp_data.obj.user ELSE NoneStr,
     token |-> IF resp_data.type = "object" /\ "token" \in DOMAIN resp_data.obj
               THEN resp_data.obj.token ELSE NoneStr]

\* --- user_id = resp_data["user"]; token = resp_data["token"], with the
\* KeyError of a missing key and the TypeError of a body that is no object
otp_credentials(resp_data) ==
    IF resp_data.type # "object"
    THEN [raised |-> "TypeError", user |-> NoneStr, token |-> NoneStr]
    ELSE IF "user" \notin DOMAIN resp_data.obj \/ "token" \notin DOMAIN resp_data.obj
    THEN [raised |-> "KeyError", user |-> NoneStr, token |-> NoneStr]
    ELSE [raised |-> "none", user |-> resp_data.obj.user, token |-> resp_data.obj.token]

\* the try/except/else after the request returned resp_data
store_credentials(self, r, c) ==
    IF c.raised # "none"
    THEN [api |-> self,
          result |-> raises("PikComfortException",
                            <<"Did not retrieve user/token information">>, r.requests)]
    ELSE [api |-> [self EXCEPT !._user_id = c.user, !.token = c.token],
          result |-> returns(None, r.requests)]

\* the rest of async_authenticate_otp, the request having ended as r
authenticate_response(self, r) ==
    IF r.raised # "none" THEN [api |-> self, result |-> r]
    ELSE store_credentials(self, r, otp_credentials(r.data))

\* --- PikComfortAPI.async_authenticate_otp
async_authenticate_otp(self, otp_token, response) ==
    IF self.username = NoneStr
    THEN [api |-> self,
          result |-> raises("PikComfortException", <<"Username is not set">>, <<>>)]
    ELSE authenticate_response(
             self,
             async_request(self, "/api-token-auth/", "False", DEFAULT_EXPECTED_STATUS,
                           [username |-> self.username, password |-> otp_token],
                           response))

AuthInit ==
    \E username \in {NoneStr, "79001234567"}, token \in {NoneStr, "token"} :
        /\ api = PikComfortAPI_init(username, token)
        /\ api_op = [name |-> "none"]

AuthenticateOtp(otp_token, response) ==
    \E r \in {async_authenticate_otp(api, otp_token, response)} :
        /\ api' = r.api
        /\ api_op' = [name |-> "async_authenticate_otp", otp_token |-> otp_token,
                      response |-> response, result |-> r.result]

\* the verify call was made and answered with the expected status and a
\* JSON object carrying both the user id and the token
verified(self, response) ==
    /\ self.username # NoneStr
    /\ response.kind = "response"
    /\ response.status = DEFAULT_EXPECTED_STATUS
    /\ response.is_json
    /\ response.body.type = "object"
    /\ {"user", "token"} \subseteq DOMAIN response.body.obj

\* C18: a call of async_authenticate_otp whose verify request succeeded
\* with both fields in the response returns and stores that token and
\* that user id; any other call raises and leaves the token and the user
\* id as they were. In every state is_authenticated holds exactly when a
\* token is stored.
C18_CredentialsStoredOnSuccessOnly ==
    /\ [](is_authenticated(api) <=> api.token # NoneStr)
    /\ [][api_op'.name = "async_authenticate_otp" =>
            IF verified(api, api_op'.response)
            THEN /\ api_op'.result.raised = "none"
                 /\ api'.token = api_op'.response.body.obj.token
                 /\ api'._user_id = api_op'.response.body.obj.user
            ELSE /\ api_op'.result.raised # "none"
                 /\ api'.token = api.token
                 /\ api'._user_id = api._user_id]_vars

\* C18: a client that held the credentials of an earlier verification got
\* an answer without a token, raised, and still holds them
C18_Witness ==
    /\ api_op.name = "async_authenticate_otp"
    /\ api_op.response =
           HttpResponse(DEFAULT_EXPECTED_STATUS, [type |-> "object", obj |-> [user |-> "user1"]])
    /\ api_op.result.raised = "PikComfortException"
    /\ api.token = "bearer2"
    /\ api._user_id = "user2"
    /\ is_authenticated(api)

\* --------------------------------------------------------------------
\* The operations of the client that need a token
\* --------------------------------------------------------------------
\* found_classifier.children, always empty
children_ignored(self, classifiers) == <<>>

\* --- TicketClassifier.has_children
has_children(self, classifiers) ==
    \E k \in 1..Len(classifiers.items) : classifiers.items[k].parent_id = self.id

\* --- TicketClassifier.children
children(self, classifiers) ==
    SelectSeq(classifiers.items, LAMBDA classifier : classifier.parent_id = self.id)

\* --- the account part of async_create_ticket
check_account_id(self, account_id, check_account) ==
    IF ~(account_id = NoneStr \/ check_account)
    THEN [raised |-> "none", account_id |-> account_id]
    ELSE IF self._info = None
    THEN [raised |-> "Information must be updated", account_id |-> account_id]
    ELSE IF account_id = NoneStr /\ Len(self._info.accounts) > 1
    THEN [raised |-> "More than one account to guess", account_id |-> account_id]
    ELSE IF self._info.accounts = <<>>
    THEN [raised |-> "No account to derive ID from", account_id |-> account_id]
    ELSE IF account_id = NoneStr
    THEN [raised |-> "none", account_id |-> self._info.accounts[1].id]
    ELSE IF \E i \in 1..Len(self._info.accounts) : self._info.accounts[i].id = account_id
    THEN [raised |-> "none", account_id |-> account_id]
    ELSE [raised |-> "No matching account within info", account_id |-> account_id]

\* the test of the children of the classifier that was found
check_children(found_classifier, found_children) ==
    IF found_classifier = None THEN "Classifier was not found"
    ELSE IF found_children # <<>> THEN "Classifier contains children"
    ELSE "none"

\* --- the classifier part of async_create_ticket
check_classifier_id(self, classifier_id, check_classifier) ==
    IF ~check_classifier THEN "none"
    ELSE IF self._classifiers.is_none THEN "Classifiers must be updated"
    ELSE check_children(
             first_with_id(self._classifiers.items, classifier_id, 1),
             children([id |-> classifier_id], self._classifiers))

\* PikComfortTicket.create_from_json on the payload the request returned
created_ticket(r) ==
    IF r.raised # "none" THEN r
    ELSE IF r.data.type # "object" THEN raises("TypeError", <<>>, r.requests)
    ELSE IF ~({"_uid", "_type", "description"} \subseteq DOMAIN r.data.obj)
    THEN raises("KeyError", <<>>, r.requests)
    ELSE returns(PikComfortTicket_create_from_json(r.data.obj, 1), r.requests)

\* the request of async_create_ticket, the checks having ended as a and c
create_ticket_request(self, classifier_id, description, a, c, response) ==
    IF a.raised # "none" THEN raises("PikComfortException", <<a.raised>>, <<>>)
    ELSE IF c # "none" THEN raises("PikComfortException", <<c>>, <<>>)
    ELSE created_ticket(
             async_request(self, "/api/v3/ticket-list/", "None", DEFAULT_EXPECTED_STATUS,
                           [classifier_id |-> classifier_id, account_id |-> a.account_id,
                            description |-> description],
                           response))

\* --- PikComfortAPI.async_create_ticket
async_create_ticket(self, classifier_id, description, account_id, check_account, check_classifier, response) ==
    create_ticket_request(self, classifier_id, description,
                          check_account_id(self, account_id, check_account),
                          check_classifier_id(self, classifier_id, check_classifier),
                          response)

\* a faulty variant: the last element of results is used
first_result_last(results) == results[Len(results)]

\* next(iter(response_data["results"])), results having an element
first_result(results) == results[1]

\* the end of async_update_info: the snapshot object was created or
\* updated with outcome u (an update that raises has changed it in place)
update_info_stored(self, r, u) ==
    [api |-> [self EXCEPT !._info = u.obj],
     result |-> IF u.raised # "none" THEN raises(u.raised, <<>>, r.requests)
                ELSE returns(u.obj, r.requests)]

\* the identity of an InfoResult constructed now: no instance the client
\* has held before
new_info_oid(self) == IF self._info = None THEN 1 ELSE self._info.oid + 1

\* info_data is known: create_from_json on every call
update_info_object_anew(self, r, info_data) ==
    update_info_stored(
        self, r,
        [raised |-> "none",
         obj |-> InfoResult_create_from_json_accounts(info_data, new_info_oid(self))])

\* info_data is known: create_from_json on the first call, update_from_json
\* on the calls that follow
update_info_object(self, r, info_data) ==
    update_info_stored(
        self, r,
        IF self._info = None
        THEN [raised |-> "none",
              obj |-> InfoResult_create_from_json_accounts(info_data, new_info_oid(self))]
        ELSE InfoResult_update_from_json_accounts(self._info, info_data))

\* the rest of async_update_info, the request having ended as r; a
\* StopIteration that leaves a coroutine is a RuntimeError
update_info_response(self, r) ==
    IF r.raised # "none" THEN [api |-> self, result |-> r]
    ELSE IF r.data.type # "object"
    THEN [api |-> self, result |-> raises("AttributeError", <<>>, r.requests)]
    ELSE IF "count" \notin DOMAIN r.data.obj \/ r.data.obj.count < 1
    THEN [api |-> self,
          result |-> raises("PikComfortException",
                            <<"Could not retrieve user information">>, r.requests)]
    ELSE IF "results" \notin DOMAIN r.data.obj
    THEN [api |-> self, result |-> raises("KeyError", <<"results">>, r.requests)]
    ELSE IF r.data.obj.results = <<>>
    THEN [api |-> self, result |-> raises("RuntimeError", <<>>, r.requests)]
    ELSE update_info_object(self, r, first_result(r.data.obj.results))

\* --- PikComfortAPI.async_update_info
async_update_info(self, response) ==
    update_info_response(
        self, async_request(self, "/api/v8/aggregate/dashboard-list/", "True",
                            DEFAULT_EXPECTED_STATUS, <<>>, response))

\* the cached list after TicketClassifier.update_list_with_models ended as u
update_classifiers_merged(self, r, u) ==
    IF u.raised # "none"
    THEN [api |-> [self EXCEPT !._classifiers = SomeList(u.list)],
          result |-> raises(u.raised, <<>>, r.requests)]
    ELSE [api |-> [self EXCEPT !._classifiers = SomeList(u.list)],
          result |-> returns(u.list, r.requests)]

\* the rest of async_update_classifiers, the request having ended as r
update_classifiers_response(self, r) ==
    IF r.raised # "none" THEN [api |-> self, result |-> r]
    ELSE IF r.data.type # "object"
    THEN [api |-> self, result |-> raises("TypeError", <<>>, r.requests)]
    ELSE IF "results" \notin DOMAIN r.data.obj
    THEN [api |-> self, result |-> raises("KeyError", <<>>, r.requests)]
    ELSE IF self._classifiers.is_none
    THEN update_classifiers_merged(
             self, r,
             [raised |-> "none",
              list |-> TicketClassifier_create_from_json_list(r.data.obj.results)])
    ELSE update_classifiers_merged(
             self, r,
             update_list_with_models("TicketClassifier", self._classifiers.items,
                                     r.data.obj.results))

\* --- PikComfortAPI.async_update_classifiers
async_update_classifiers(self, response) ==
    update_classifiers_response(
        self, async_request(self, "/api/v3/classifier-list/", "True",
                            DEFAULT_EXPECTED_STATUS, <<>>, response))

\* --- dict(values).items() as a list of <<key, value>>, and d[key] = value
RECURSIVE dict_index(_, _, _)
dict_index(d, key, i) ==
    IF i > Len(d) THEN 0
    ELSE IF d[i][1] = key THEN i
    ELSE dict_index(d, key, i + 1)

dict_set_at(d, key, value, i) ==
    IF i = 0 THEN Append(d, <<key, value>>) ELSE [d EXCEPT ![i] = <<key, value>>]

dict_set(d, key, value) == dict_set_at(d, key, value, dict_index(d, key, 1))

\* --- the first tariff of the meter with that type, None when there is none
RECURSIVE tariff_of_type(_, _, _)
tariff_of_type(tariffs, type, i) ==
    IF i > Len(tariffs) THEN None
    ELSE IF tariffs[i].type = type THEN tariffs[i]
    ELSE tariff_of_type(tariffs, type, i + 1)

\* --- the loop of async_submit_readings that builds the request body
\* one more entry of the request body, before the entries built as rest
readings_entry(self, value, rest) ==
    IF rest.raised # "none" THEN rest
    ELSE [raised |-> "none",
          request |-> <<[value |-> value[2], tariff_type |-> value[1], meter |-> self.id,
                         meter_reading_uid |-> self.id \o ToString(value[1])]>>
                          \o rest.request]

\* the loop leaving out the values whose tariff the meter does not have
RECURSIVE readings_request_present(_, _, _)
readings_request_present(self, values, k) ==
    IF k > Len(values) THEN [raised |-> "none", request |-> <<>>]
    ELSE IF tariff_of_type(self.tariffs, values[k][1], 1) = None
    THEN readings_request_present(self, values, k + 1)
    ELSE readings_entry(self, values[k], readings_request_present(self, values, k + 1))

RECURSIVE readings_request(_, _, _)
readings_request(self, values, k) ==
    IF k > Len(values) THEN [raised |-> "none", request |-> <<>>]
    ELSE IF tariff_of_type(self.tariffs, values[k][1], 1) = None
    THEN [raised |-> "ValueError", request |-> <<>>]
    ELSE readings_entry(self, values[k], readings_request(self, values, k + 1))

\* the session.post of async_submit_readings and what follows it
post_readings(api_object, request, response) ==
    LET requests == <<[url |-> "/api/v2/mobile/usermeterreading-list/", data |-> request,
                       authorization |-> <<"Token ", api_object.token>>]>>
    IN CASE response.kind = "ClientError" -> raises("ClientError", <<>>, requests)
         [] response.kind = "TimeoutError" -> raises("TimeoutError", <<>>, requests)
         [] response.kind = "response" ->
                IF response.status # HTTP_CREATED
                THEN raises("PikComfortException", <<"Could not submit readings">>,
                            requests)
                ELSE IF ~response.is_json THEN raises("ClientError", <<>>, requests)
                ELSE IF response.body.type # "array"
                THEN raises("PikComfortException", <<"Invalid response data">>, requests)
                ELSE returns(response.body.items, requests)

\* the rest of async_submit_readings, the request body having been built as b
submit_request(self, api_object, b, response) ==
    IF b.raised # "none" THEN raises(b.raised, <<>>, <<>>)
    ELSE post_readings(api_object, b.request, response)

\* --- PikComfortMeter.async_submit_readings; `values` is the mapping from
\* tariff type to reading, `api_object` the client the meter belongs to
async_submit_readings(self, api_object, values, response) ==
    IF ~is_authenticated(api_object)
    THEN raises("PikComfortException", <<"API is not authenticated">>, <<>>)
    ELSE submit_request(self, api_object, readings_request(self, values, 1), response)

\* --------------------------------------------------------------------
\* SpecTicket: a client, with or without a token, on which the snapshot
\* and the classifiers are fetched, tickets are created and readings of
\* one of its meters are submitted
\* --------------------------------------------------------------------
Rejected == HttpResponse(400, [type |-> "object", obj |-> [code |-> "throttled"]])

\* a snapshot of the user uid with the accounts of the ids given, each
\* without tickets, receipts, meters and payments
InfoJson(uid, phone, account_ids) ==
    [_uid |-> uid, _type |-> "user", phone |-> phone,
     accounts |-> [i \in 1..Len(account_ids) |->
                      [_uid |-> account_ids[i], _type |-> "account", number |-> "1001",
                       debt |-> phone,
                       tickets |-> <<>>, receipts |-> <<>>, meters |-> <<>>,
                       payments |-> <<>>]]]

InfoResponses ==
    {[kind |-> "ClientError"], Rejected}
        \cup {HttpResponse(DEFAULT_EXPECTED_STATUS,
                           [type |-> "object",
                            obj |-> [count |-> Len(results), results |-> results]]) :
                 results \in {<<>>, <<InfoJson("u1", "old", <<"a1">>)>>,
                              <<InfoJson("u1", "old", <<"a1", "a2">>)>>}}

ClassifierResponses ==
    {[kind |-> "ClientError"], Rejected}
        \cup {HttpResponse(DEFAULT_EXPECTED_STATUS,
                           [type |-> "object", obj |-> [results |-> results]]) :
                 results \in {json_data_list \in ClassifierLists :
                                  /\ Len(json_data_list) <= 2
                                  /\ \A k \in 1..Len(json_data_list) :
                                         json_data_list[k].parent \in {NoneStr, "A"}}}

TicketResponses ==
    {[kind |-> "ClientError"], Rejected,
     HttpResponse(DEFAULT_EXPECTED_STATUS,
                  [type |-> "object",
                   obj |-> [_uid |-> "t1", _type |-> "ticket", description |-> "leak",
                            attachments |-> <<>>]])}

ReadingsResponses ==
    {[kind |-> "ClientError"], Rejected,
     HttpResponse(HTTP_CREATED, [type |-> "array", items |-> <<>>])}

TicketInit ==
    \E token \in {NoneStr, "token"} :
        /\ api = PikComfortAPI_init("79001234567", token)
        /\ api_op = [name |-> "none"]

UpdateInfo(response) ==
    \E r \in {async_update_info(api, response)} :
        /\ api' = r.api
        /\ api_op' = [name |-> "async_update_info", response |-> response,
                      result |-> r.result]

UpdateClassifiers(response) ==
    \E r \in {async_update_classifiers(api, response)} :
        /\ api' = r.api
        /\ api_op' = [name |-> "async_update_classifiers", response |-> response,
                      result |-> r.result]

CreateTicket(classifier_id, account_id, check_account, check_classifier, response) ==
    /\ api_op' = [name |-> "async_create_ticket", classifier_id |-> classifier_id,
                  account_id |-> account_id, check_account |-> check_account,
                  check_classifier |-> check_classifier, response |-> response,
                  result |-> async_create_ticket(api, classifier_id, "leak", account_id,
                                                 check_account, check_classifier,
                                                 response)]
    /\ UNCHANGED api

SubmitReadings(json_data, values, response) ==
    /\ api_op' = [name |-> "async_submit_readings", values |-> values,
                  response |-> response,
                  result |-> async_submit_readings(
                                 PikComfortMeter_create_from_json(json_data, 1), api,
                                 values, response)]
    /\ UNCHANGED api

\* the classifier is cached, and some cached classifier names it as parent
is_cached(self, classifier_id) ==
    /\ ~self._classifiers.is_none
    /\ \E i \in 1..Len(self._classifiers.items) :
           self._classifiers.items[i].id = classifier_id

has_child(self, classifier_id) ==
    \E i \in 1..Len(self._classifiers.items) :
        self._classifiers.items[i].parent_id = classifier_id

\* the account given, or the only account of the snapshot, is accepted
account_accepted(self, account_id, check_account) ==
    \/ account_id # NoneStr /\ ~check_account
    \/ /\ self._info # None
       /\ IF account_id = NoneStr THEN Len(self._info.accounts) = 1
          ELSE \E i \in 1..Len(self._info.accounts) :
                   self._info.accounts[i].id = account_id

\* C14: a call of async_create_ticket that checks the classifier raises
\* the client's exception without a request when the classifiers are not
\* loaded, when the id is not among them, or when a cached classifier has
\* it as parent. For a cached classifier without children, the account
\* being accepted, it makes exactly one request, the creation of the
\* ticket for that classifier, and when the server answers with the
\* ticket it returns the ticket built from the answer.
C14_LeafOnlyTicketCreation ==
    (api_op.name = "async_create_ticket" /\ api_op.check_classifier) =>
        IF ~is_cached(api, api_op.classifier_id) \/ has_child(api, api_op.classifier_id)
        THEN /\ api_op.result.raised = "PikComfortException"
             /\ api_op.result.requests = <<>>
        ELSE account_accepted(api, api_op.account_id, api_op.check_account) =>
                /\ Len(api_op.result.requests) = 1
                /\ api_op.result.requests[1].url = "/api/v3/ticket-list/"
                /\ api_op.result.requests[1].data.classifier_id = api_op.classifier_id
                /\ api_op.response.kind = "response"
                       /\ api_op.response.status = DEFAULT_EXPECTED_STATUS =>
                      /\ api_op.result.raised = "none"
                      /\ api_op.result.data =
                             PikComfortTicket_create_from_json(api_op.response.body.obj, 1)

\* C14: with A and its child B cached, a checked creation on the leaf B
\* made its request and returned the ticket
C14_Witness ==
    /\ api_op.name = "async_create_ticket"
    /\ api_op.check_classifier
    /\ api_op.classifier_id = "B"
    /\ is_cached(api, "B") /\ has_child(api, "A") /\ ~has_child(api, "B")
    /\ Len(api_op.result.requests) = 1
    /\ api_op.result.raised = "none"
    /\ api_op.result.data.id = "t1"

\* C16: a snapshot fetch, a classifier listing, a ticket creation or a
\* submission of readings on a client without a token raises the client's
\* exception and makes no HTTP request.
C16_NoTokenNoRequest ==
    (/\ api_op.name \in {"async_update_info", "async_update_classifiers",
                         "async_create_ticket", "async_submit_readings"}
     /\ ~is_authenticated(api)) =>
        /\ isinstance(api_op.result.raised, "PikComfortException")
        /\ api_op.result.requests = <<>>

\* --------------------------------------------------------------------
\* SpecSensor: the push_readings service of a meter sensor
\* --------------------------------------------------------------------
MaxIndications == 2   \* most zones one service call may carry

\* --- int(zone_id[1:]) for the zone ids the service schema accepts (t\d+)
zone_number(zone_id) ==
    CASE zone_id = "t1" -> 1
      [] zone_id = "t01" -> 1
      [] zone_id = "t2" -> 2
      [] zone_id = "t3" -> 3

\* `x or 0.0`, always 0.0
or_zero_dropped(x) == 0

\* --- `x or 0.0`: 0.0 for None and for 0
or_zero(x) == IF x = NoneNum THEN 0 ELSE x

max(a, b) == IF a >= b THEN a ELSE b

\* the value to submit for one indication on the tariff that was found
submit_value(existing_tariff, new_value, is_incremental) ==
    IF is_incremental
    THEN new_value + max(or_zero(existing_tariff.value), or_zero(existing_tariff.user_value))
    ELSE new_value

\* one turn of the loop of get_submit_call_args, the tariff of the zone
\* having been looked up
submit_call_arg(args, indication, is_incremental, existing_tariff) ==
    IF args.raised # "none" THEN args
    ELSE IF existing_tariff = None THEN [raised |-> "ValueError", dict |-> args.dict]
    ELSE [raised |-> "none",
          dict |-> dict_set(args.dict, zone_number(indication[1]),
                            submit_value(existing_tariff, indication[2], is_incremental))]

\* --- PikComfortMeterSensor.get_submit_call_args; the indications are the
\* items of the mapping from zone id to value, in their order
RECURSIVE get_submit_call_args(_, _, _, _)
get_submit_call_args(meter_object, indications, is_incremental, k) ==
    IF k = 0 THEN [raised |-> "none", dict |-> <<>>]
    ELSE submit_call_arg(
             get_submit_call_args(meter_object, indications, is_incremental, k - 1),
             indications[k], is_incremental,
             tariff_of_type(meter_object.tariffs, zone_number(indications[k][1]), 1))

\* the call of async_submit_readings with the arguments built as args
push_submit(meter_object, api_object, args, response) ==
    IF args.raised # "none" THEN raises(args.raised, <<>>, <<>>)
    ELSE async_submit_readings(meter_object, api_object, args.dict, response)

\* --- PikComfortMeterSensor.async_service_push_readings
async_service_push_readings(meter_object, api_object, call_data, response) ==
    push_submit(meter_object, api_object,
                get_submit_call_args(meter_object, call_data.readings,
                                     call_data.incremental, Len(call_data.readings)),
                response)

SensorTariffJson ==
    {<<[type |-> 1, value |-> 100, user_value |-> u]>> : u \in {NoneNum, 80, 120}}
        \cup {<<[type |-> 1, value |-> 100, user_value |-> u],
                [type |-> 2, value |-> 7, user_value |-> NoneNum]>> : u \in {NoneNum, 120}}

SensorMeterJson ==
    {[_uid |-> "m1", _type |-> "meter", tariffs |-> t] : t \in SensorTariffJson}

ZoneIds == {"t1", "t01", "t2", "t3"}

\* the mappings a call may carry: distinct zone ids, the k-th with the
\* value 50 + 20 * (k - 1)
Indications ==
    {[k \in 1..Len(z) |-> <<z[k], 50 + 20 * (k - 1)>>] :
        z \in {s \in SeqsUpTo(ZoneIds, MaxIndications) :
                  Len(s) > 0 /\ \A i, j \in 1..Len(s) : i # j => s[i] # s[j]}}

SensorInit ==
    /\ api = PikComfortAPI_init("79001234567", "token")
    /\ api_op = [name |-> "none"]

PushReadings(json_data, call_data, response) ==
    /\ api_op' = [name |-> "push_readings",
                  meter_object |-> PikComfortMeter_create_from_json(json_data, 1),
                  call_data |-> call_data,
                  result |-> async_service_push_readings(
                                 PikComfortMeter_create_from_json(json_data, 1), api,
                                 call_data, response)]
    /\ UNCHANGED api

\* the zone numbers of a call, the value the call carries last for a zone
\* number, and the last known reading of a zone of the meter: the greater
\* of the reading the provider holds and the reading the user submitted
\* last, a missing one counting as 0
zones_of(readings) == {zone_number(readings[k][1]) : k \in 1..Len(readings)}

last_indication(readings, n) ==
    readings[CHOOSE k \in 1..Len(readings) :
                 /\ zone_number(readings[k][1]) = n
                 /\ \A j \in (k + 1)..Len(readings) : zone_number(readings[j][1]) # n][2]

last_known_reading(meter_object, n) ==
    LET tariff == CHOOSE t \in {meter_object.tariffs[i] : i \in 1..Len(meter_object.tariffs)} :
                      t.type = n
    IN IF tariff.user_value # NoneNum /\ tariff.user_value > tariff.value
       THEN tariff.user_value ELSE tariff.value

zones_exist(meter_object, readings) ==
    \A n \in zones_of(readings) :
        \E i \in 1..Len(meter_object.tariffs) : meter_object.tariffs[i].type = n

\* C15: a push_readings call whose zones all exist on the meter makes one
\* request that carries, for each zone, the value of the call when the
\* call is absolute and the last known reading of the zone plus that
\* value when it is incremental; a call naming a zone the meter does not
\* have raises and makes no request.
C15_IncrementalAddsLastReading ==
    api_op.name = "push_readings" =>
        IF zones_exist(api_op.meter_object, api_op.call_data.readings)
        THEN /\ Len(api_op.result.requests) = 1
             /\ {e.tariff_type : e \in {api_op.result.requests[1].data[i] :
                                           i \in 1..Len(api_op.result.requests[1].data)}}
                    = zones_of(api_op.call_data.readings)
             /\ \A i \in 1..Len(api_op.result.requests[1].data) :
                    LET entry == api_op.result.requests[1].data[i]
                    IN entry.value =
                           last_indication(api_op.call_data.readings, entry.tariff_type)
                           + IF api_op.call_data.incremental
                             THEN last_known_reading(api_op.meter_object, entry.tariff_type)
                             ELSE 0
        ELSE /\ api_op.result.raised = "ValueError"
             /\ api_op.result.requests = <<>>

\* C15: zone 1 read 100, the call carried 50 for it, incremental, and 150
\* was submitted
C15_Witness ==
    /\ api_op.name = "push_readings"
    /\ api_op.meter_object.tariffs[1].value = 100
    /\ api_op.meter_object.tariffs[1].user_value = NoneNum
    /\ api_op.call_data = [readings |-> <<<<"t1", 50>>>>, incremental |-> TRUE]
    /\ Len(api_op.result.requests) = 1
    /\ api_op.result.requests[1].data[1].value = 150
    /\ api_op.result.raised = "none"

\* --------------------------------------------------------------------
\* SpecFlow: the OTP input step of the configuration flow, entered after
\* a one-time code was requested, on the inputs its form lets through
\* --------------------------------------------------------------------
MaxTime == 3          \* last instant of the clock
MaxTtl == 2           \* longest lifetime the server gives a one-time code

FlowIdle ==
    /\ flow = [cls |-> "none"]
    /\ flow_op = [name |-> "none"]
    /\ clock = 0

\* --- PikComfortAPI.async_request_otp_code
request_otp_code_response(r) ==
    IF r.raised # "none" THEN r
    ELSE IF r.data.type # "object" THEN raises("TypeError", <<>>, r.requests)
    ELSE IF "ttl" \notin DOMAIN r.data.obj
    THEN raises("PikComfortException", <<"Response does not contain TTL details">>,
                r.requests)
    ELSE returns(r.data.obj.ttl, r.requests)

async_request_otp_code(self, response) ==
    IF self.username = NoneStr
    THEN raises("PikComfortException", <<"Username is not set">>, <<>>)
    ELSE request_otp_code_response(
             async_request(self, "/request-sms-password/", "False",
                           DEFAULT_EXPECTED_STATUS, [phone |-> self.username], response))

\* --- _handle_exception: the error key and the server's code, None for an
\* exception that is no ServerError
handle_exception(error) ==
    IF isinstance(error.raised, "ServerError")
    THEN [intl_error_code |-> "server_error", error_code |-> error.args[4]]
    ELSE IF isinstance(error.raised, "RequestError")
    THEN [intl_error_code |-> "request_error", error_code |-> NoneStr]
    ELSE IF isinstance(error.raised, "PikComfortException")
    THEN [intl_error_code |-> "api_error", error_code |-> NoneStr]
    ELSE [intl_error_code |-> "unknown_error", error_code |-> NoneStr]

\* --- the except clause of async_step_otp_input: the errors of the form,
\* as pairs of field and message
otp_errors(handled) ==
    IF handled.intl_error_code = "server_error" /\ handled.error_code = "invalid"
    THEN {<<"token", "otp_token_invalid">>}
    ELSE {<<"base", handled.intl_error_code>>}

show_form(self, errors, requests) ==
    [flow |-> self,
     result |-> [type |-> "form", step_id |-> "otp_input", errors |-> errors],
     requests |-> requests]

\* --- PikComfortConfigFlow._create_entry
create_entry(self, requests) ==
    IF self._auth_token = NoneStr \/ self._phone_number = NoneStr
    THEN show_form(self, otp_errors(handle_exception(raises("AssertionError", <<>>, <<>>))),
                   requests)
    ELSE [flow |-> self,
          result |-> [type |-> "create_entry",
                      data |-> [phone_number |-> self._phone_number,
                                token |-> self._auth_token,
                                device_name |-> self._device_name,
                                scan_interval |-> "DEFAULT_SCAN_INTERVAL"]],
          requests |-> requests]

\* the branch that requests a new code, the request having ended as r
new_code_requested(self, now, r) ==
    IF r.raised # "none"
    THEN show_form(self, otp_errors(handle_exception(r)), r.requests)
    ELSE show_form([self EXCEPT !._otp_expires_at = now + r.data], {}, r.requests)

\* the branch that verifies the code, async_authenticate_otp having ended
\* as a
code_verified(self, a) ==
    IF a.result.raised # "none"
    THEN show_form(self, otp_errors(handle_exception(a.result)), a.result.requests)
    ELSE create_entry([self EXCEPT !._auth_token = a.api.token], a.result.requests)

\* the try block: user_input[CONF_TOKEN] is read from the input
otp_attempt(self, user_input, now, response) ==
    IF "request_new_otp_code" \in DOMAIN user_input /\ user_input.request_new_otp_code
    THEN new_code_requested(
             self, now,
             async_request_otp_code(PikComfortAPI_init(self._phone_number, NoneStr),
                                    response))
    ELSE IF "token" \notin DOMAIN user_input
    THEN show_form(self, otp_errors(handle_exception(raises("KeyError", <<"token">>, <<>>))),
                   <<>>)
    ELSE code_verified(
             self,
             async_authenticate_otp(PikComfortAPI_init(self._phone_number, NoneStr),
                                    user_input.token, response))

\* --- time() < otp_expires_at
before_expiry(now, otp_expires_at) == now < otp_expires_at

\* --- _WithOTPInput.async_step_otp_input; `now` is what time() returns
async_step_otp_input(self, user_input, now, response) ==
    IF user_input = None THEN show_form(self, {}, <<>>)
    ELSE IF ("request_new_otp_code" \in DOMAIN user_input
                 /\ user_input.request_new_otp_code)
            \/ before_expiry(now, self._otp_expires_at)
    THEN otp_attempt(self, user_input, now, response)
    ELSE show_form(self, {<<"token", "otp_token_expired">>}, <<>>)

\* what the form of the step lets through: its schema requires otp_code
\* and fills request_new_otp_code
OtpInputs ==
    {None} \cup {[otp_code |-> "1234", request_new_otp_code |-> b] : b \in BOOLEAN}

Accepted(token) ==
    HttpResponse(DEFAULT_EXPECTED_STATUS,
                 [type |-> "object", obj |-> [user |-> "user1", token |-> token]])

Invalid == HttpResponse(400, [type |-> "object",
                              obj |-> [code |-> "invalid", message |-> "Wrong code"]])

FlowResponses ==
    {[kind |-> "ClientError"], [kind |-> "TimeoutError"], Rejected, Invalid,
     Accepted("bearer1"), Accepted("bearer2")}
        \cup {HttpResponse(DEFAULT_EXPECTED_STATUS, [type |-> "object", obj |-> [ttl |-> t]]) :
                 t \in 1..MaxTtl}

\* the step is entered by _async_test_authentication, which has requested
\* a code and stored the instant it expires at
FlowInit ==
    \E ttl \in 1..MaxTtl :
        /\ flow = [cls |-> "PikComfortConfigFlow", _device_name |-> "ABCD",
                   _phone_number |-> "79001234567", _auth_token |-> NoneStr,
                   _otp_expires_at |-> ttl]
        /\ flow_op = [name |-> "none"]
        /\ clock = 0

StepOtpInput(user_input, elapsed, response) ==
    /\ flow_op.name # "create_entry"
    /\ clock + elapsed <= MaxTime
    /\ clock' = clock + elapsed
    /\ \E r \in {async_step_otp_input(flow, user_input, clock + elapsed, response)} :
          /\ flow' = r.flow
          /\ flow_op' = [name |-> r.result.type, user_input |-> user_input,
                         now |-> clock + elapsed, otp_expires_at |-> flow._otp_expires_at,
                         response |-> response, result |-> r.result,
                         requests |-> r.requests]

\* the call of the step submitted a code, without asking for a new one
code_submitted == flow_op.name # "none" /\ flow_op.user_input # None
                      /\ ~flow_op.user_input.request_new_otp_code

\* C19: a code submitted before the stored expiry instant, which the
\* server accepts with a bearer token, ends the flow with a config entry
\* whose token is that bearer token.
C19_AcceptedCodeCreatesEntry ==
    (/\ code_submitted
     /\ flow_op.now < flow_op.otp_expires_at
     /\ \E token \in {"bearer1", "bearer2"} : flow_op.response = Accepted(token)) =>
        /\ flow_op.result.type = "create_entry"
        /\ flow_op.result.data.token = flow_op.response.body.obj.token

\* C20: a code submitted at or after the expiry instant is reported as
\* expired and no request is made; a verify call that the server rejects
\* with the code "invalid" is reported as an invalid code; every other
\* call that shows an error shows it under the generic key, as a server,
\* request, API or unknown error.
C20_FailuresDistinguished ==
    (flow_op.name = "form" /\ flow_op.result.errors # {}) =>
        IF code_submitted /\ flow_op.now >= flow_op.otp_expires_at
        THEN /\ flow_op.result.errors = {<<"token", "otp_token_expired">>}
             /\ flow_op.requests = <<>>
        ELSE IF /\ code_submitted
                /\ flow_op.requests # <<>>
                /\ flow_op.requests[1].url = "/api-token-auth/"
                /\ flow_op.response = Invalid
        THEN flow_op.result.errors = {<<"token", "otp_token_invalid">>}
        ELSE \E key \in {"server_error", "request_error", "api_error", "unknown_error"} :
                flow_op.result.errors = {<<"base", key>>}

\* --------------------------------------------------------------------
\* SpecInfo: a client on which the snapshot is fetched again and again,
\* the server answering with envelopes whose count and results vary
\* independently
\* --------------------------------------------------------------------
MaxResults == 2

InfoResults ==
    {InfoJson("u1", "old", <<"a1", "a2">>), InfoJson("u1", "new", <<"a2">>),
     InfoJson("u2", "new", <<"a1">>), InfoJson("u1", "old", <<>>)}

Envelopes ==
    {[results |-> results] : results \in SeqsUpTo(InfoResults, MaxResults)}
        \cup {[count |-> count, results |-> results] :
                 count \in 0..MaxResults, results \in SeqsUpTo(InfoResults, MaxResults)}
        \cup {[count |-> 1]}

SnapshotResponses ==
    {[kind |-> "ClientError"], Rejected}
        \cup {HttpResponse(DEFAULT_EXPECTED_STATUS, [type |-> "object", obj |-> obj]) :
                 obj \in Envelopes}

InfoInit ==
    \E token \in {NoneStr, "token"} :
        /\ api = PikComfortAPI_init("79001234567", token)
        /\ api_op = [name |-> "none"]

\* the ids of the records of a list
ids_of(list) == {list[i].id : i \in 1..Len(list)}

\* the snapshot object holds what info_data says: its scalars, and one
\* account per account of info_data, with that account's scalar
holds_snapshot(info_object, info_data) ==
    /\ info_object.id = info_data._uid
    /\ info_object.phone = info_data.phone
    /\ Len(info_object.accounts) = Len(info_data.accounts)
    /\ \A k \in 1..Len(info_data.accounts) :
           \E i \in 1..Len(info_object.accounts) :
               /\ info_object.accounts[i].id = info_data.accounts[k]._uid
               /\ info_object.accounts[i].debt = info_data.accounts[k].debt

\* the object `after` is the instance `before`, and an account of both
\* is the same instance in both
same_instances(before, after) ==
    /\ after.oid = before.oid
    /\ \A i \in 1..Len(before.accounts), j \in 1..Len(after.accounts) :
           before.accounts[i].id = after.accounts[j].id =>
               before.accounts[i].oid = after.accounts[j].oid

\* C21: a snapshot fetch on a client with a token, answered with an
\* envelope: when count is missing or 0 it raises the client's exception
\* and the snapshot object is what it was (absent if it was absent); when
\* count is 1 or more and results has an element, it returns the snapshot
\* object, which holds what the first element of results says, whatever
\* the other elements are; the object is new on the first call and the
\* same instance, with the same instances of the accounts that persist,
\* on the calls that follow.
C21_CountDecidesSnapshot ==
    [][(/\ api_op'.name = "async_update_info"
        /\ is_authenticated(api)
        /\ api_op'.response.kind = "response"
        /\ api_op'.response.status = DEFAULT_EXPECTED_STATUS) =>
           LET obj == api_op'.response.body.obj
           IN IF "count" \notin DOMAIN obj \/ obj.count < 1
              THEN /\ api_op'.result.raised = "PikComfortException"
                   /\ api_op'.result.args = <<"Could not retrieve user information">>
                   /\ api' = api
              ELSE ("results" \in DOMAIN obj /\ obj.results # <<>>) =>
                      /\ api_op'.result.raised = "none"
                      /\ api_op'.result.data = api'._info
                      /\ holds_snapshot(api'._info, obj.results[1])
                      /\ api._info # None => same_instances(api._info, api'._info)]_vars

\* C21: an envelope with count 2 and two different results was applied to
\* an existing snapshot object: the account a2, second of the object until
\* then, is now its only account and is still the second instance.
C21_Witness ==
    /\ api_op.name = "async_update_info"
    /\ api_op.result.raised = "none"
    /\ api_op.response.body.obj.count = 2
    /\ Len(api_op.response.body.obj.results) = 2
    /\ api_op.response.body.obj.results[1] # api_op.response.body.obj.results[2]
    /\ Len(api._info.accounts) = 1
    /\ api._info.accounts[1].id = "a2"
    /\ api._info.accounts[1].oid = 2

\* C31: the client holds no snapshot object before its first fetch and
\* until a fetch returns; a fetch that returns leaves it holding one; and
\* once it holds one, every fetch, returning or raising, leaves it holding
\* that same instance.
C31_RootCreatedOnceAndKept ==
    [][/\ api_op.name = "none" => api._info = None
       /\ api_op'.name = "async_update_info" =>
              /\ (api._info = None /\ api_op'.result.raised # "none") => api'._info = None
              /\ api_op'.result.raised = "none" => api'._info # None
              /\ api._info # None =>
                     /\ api'._info # None
                     /\ api'._info.oid = api._info.oid]_vars

\* C31: a fetch that the server refused has ended on a client that held
\* a snapshot object; the client still holds the first instance
C31_Witness ==
    /\ api_op.name = "async_update_info"
    /\ api_op.response = Rejected
    /\ api_op.result.raised = "ServerError"
    /\ api._info # None
    /\ api._info.oid = 1

\* --------------------------------------------------------------------
\* SpecRefresh: the snapshot is refreshed again and again; between the
\* request and its answer the coroutine is suspended and other
\* coroutines (entities, service handlers) run and read the model
\* --------------------------------------------------------------------
Versions == {"old", "new", "newer"}

\* the snapshot of version v, the account with or without a ticket and a
\* receipt: every scalar of the user, of the account, of the ticket and
\* of the receipt carries v
VersionJson(v, with_ticket, with_receipt) ==
    [_uid |-> "u1", _type |-> "user", phone |-> v,
     accounts |->
        <<[_uid |-> "a1", _type |-> "account", number |-> "1001", debt |-> v,
           tickets |-> IF with_ticket
                       THEN <<[_uid |-> "t1", _type |-> "ticket", description |-> v,
                               attachments |-> <<>>]>>
                       ELSE <<>>,
           receipts |-> IF with_receipt
                        THEN <<[_type |-> "receipt",
                                period |-> [date |-> "2021-02-01", rest |-> ""],
                                total |-> v,
                                main |-> <<[_uid |-> "c1", _type |-> "content",
                                            total |-> v]>>]>>
                        ELSE <<>>,
           meters |-> <<>>, payments |-> <<>>]>>]

RefreshSnapshots ==
    {VersionJson(v, with_ticket, with_receipt) :
        v \in Versions, with_ticket \in BOOLEAN, with_receipt \in BOOLEAN}

RefreshResponses ==
    {[kind |-> "ClientError"], Rejected}
        \cup {HttpResponse(DEFAULT_EXPECTED_STATUS,
                           [type |-> "object",
                            obj |-> [count |-> 1, results |-> <<info_data>>]]) :
                 info_data \in RefreshSnapshots}

RefreshInit ==
    /\ api = PikComfortAPI_init("79001234567", "token")
    /\ api_op = [name |-> "none"]

\* async_update_info is called and suspends in `await self.async_request`
RefreshRequest ==
    /\ api_op.name # "request"
    /\ api_op' = [name |-> "request"]
    /\ UNCHANGED api

\* the answer arrives: the coroutine resumes and runs to its end
RefreshResponse(response) ==
    /\ api_op.name = "request"
    /\ UpdateInfo(response)

\* every scalar of the snapshot object, of its accounts, of their tickets
\* and of their receipts is the one of version v
of_version(info_object, v) ==
    /\ info_object.phone = v
    /\ \A i \in 1..Len(info_object.accounts) :
           LET account_object == info_object.accounts[i]
           IN /\ account_object.debt = v
              /\ \A k \in 1..Len(account_object.tickets) :
                     account_object.tickets[k].description = v
              /\ \A k \in 1..Len(account_object.receipts) :
                     account_object.receipts[k].total = v

\* C22: at every point where the refreshing coroutine is suspended or has
\* ended, by returning or by raising, the snapshot object that a reader
\* finds is of one version: the one it had before the pass or the one of
\* the snapshot applied, never some scalars of one and some of the other.
C22_ReadersSeeOneSnapshot ==
    api._info # None => \E v \in Versions : of_version(api._info, v)

\* --------------------------------------------------------------------
\* SpecMeter: one meter, built by create_from_json from a first snapshot
\* and updated with the snapshots that follow
\* --------------------------------------------------------------------
MaxTariffs == 2

TariffJson ==
    {[type |-> type, value |-> value, user_value |-> NoneNum] :
        type \in 1..MaxTariffs, value \in {100, 150}}

\* the snapshots of the meter m1: up to MaxTariffs tariffs of distinct
\* numbers
MeterSnapshots ==
    {[_uid |-> "m1", _type |-> "meter", tariffs |-> tariffs] :
        tariffs \in {t \in SeqsUpTo(TariffJson, MaxTariffs) :
                        \A i, j \in 1..Len(t) : t[i].type = t[j].type => i = j}}

MeterInit ==
    \E json_data \in MeterSnapshots :
        /\ record = PikComfortMeter_create_from_json(json_data, 1)
        /\ record_op = [name |-> "create", json_data |-> json_data, raised |-> "none"]

UpdateMeter(json_data) ==
    \E r \in {PikComfortMeter_update_from_json(record, json_data)} :
       /\ record' = r.obj
       /\ record_op' = [name |-> "update", json_data |-> json_data, raised |-> r.raised]

\* the tariff list `after` is `before` reconciled with the payload: one
\* tariff per number of the payload, with the payload's reading; the
\* tariffs whose number was in `before` are the instances they were
tariffs_reconciled(before, json_data_list, after) ==
    /\ Len(after) = Len(json_data_list)
    /\ \A k \in 1..Len(json_data_list) :
           \E j \in 1..Len(after) :
               /\ after[j].type = json_data_list[k].type
               /\ after[j].value = json_data_list[k].value
               /\ \A i \in 1..Len(before) :
                      before[i].type = after[j].type => before[i].oid = after[j].oid

\* C25: an update of a meter with a snapshot returns and leaves the tariff
\* list reconciled by tariff number: the tariffs of the numbers in both
\* are updated in place, those of new numbers are appended, those of the
\* numbers absent from the snapshot are removed.
C25_TariffsKeptByNumber ==
    [][record_op'.name = "update" =>
          /\ record_op'.raised = "none"
          /\ tariffs_reconciled(record.tariffs, record_op'.json_data.tariffs,
                                record'.tariffs)]_vars

\* --------------------------------------------------------------------
\* SpecNested: one record that owns nested records (a ticket with its
\* attachments, a payment with its payment point details, an account
\* with its ticket), built by create_from_json and updated with
\* payloads of the same identity, some of which lack a key of a nested
\* record
\* --------------------------------------------------------------------
MaxNested == 1

NestedAttachmentJson == AttachmentJson \cup {[uid |-> "a1"]}

NestedDetailsJson ==
    {PointDetailsJson, [icon_name |-> "new", color |-> "new"], [icon_name |-> "new"],
     [color |-> "new"]}

\* the payloads of a class; the well-formed ones have every key
NestedJson(cls, well_formed) ==
    LET attachment_lists ==
            SeqsUpTo(IF well_formed THEN AttachmentJson ELSE NestedAttachmentJson,
                     MaxNested)
        details == IF well_formed THEN {PointDetailsJson} ELSE NestedDetailsJson
        ticket_json ==
            {[_uid |-> "t1", _type |-> "ticket", description |-> description,
              attachments |-> list] :
                description \in {"old", "new"}, list \in attachment_lists}
    IN CASE cls = "PikComfortTicket" -> ticket_json
         [] cls = "PikComfortPayment" ->
                {[_uid |-> "p1", _type |-> "payment", payment_date |-> t,
                  payment_point_details |-> d] : t \in 1..MaxTimestamp, d \in details}
         [] cls = "PikComfortAccount" ->
                {[_uid |-> "a1", _type |-> "account", number |-> "1001", debt |-> debt,
                  tickets |-> tickets,
                  receipts |-> <<>>, meters |-> <<>>, payments |-> <<>>] :
                    debt \in {"old", "new"}, tickets \in {<<t>> : t \in ticket_json}}

NestedClasses == {"PikComfortTicket", "PikComfortPayment", "PikComfortAccount"}

NestedInit ==
    \E cls \in NestedClasses : \E json_data \in NestedJson(cls, TRUE) :
        /\ record = IF cls = "PikComfortAccount"
                    THEN PikComfortAccount_create_from_json(json_data, 1)
                    ELSE create_from_json(cls, json_data, 1)
        /\ record_op = [name |-> "create", json_data |-> json_data, raised |-> "none"]

UpdateNested(json_data) ==
    \E r \in {IF record.cls = "PikComfortAccount"
              THEN PikComfortAccount_update_from_json(record, json_data)
              ELSE update_from_json(record, json_data)} :
       /\ record' = r.obj
       /\ record_op' = [name |-> "update", json_data |-> json_data, raised |-> r.raised]

\* the record's own scalar, and the one its payload carries
scalar_of(self) ==
    CASE self.cls = "PikComfortTicket" -> self.description
      [] self.cls = "PikComfortPayment" -> self.timestamp
      [] self.cls = "PikComfortAccount" -> self.debt

json_scalar(cls, json_data) ==
    CASE cls = "PikComfortTicket" -> json_data.description
      [] cls = "PikComfortPayment" -> json_data.payment_date
      [] cls = "PikComfortAccount" -> json_data.debt

\* the nested records of the record hold what the payload says
nested_done(self, json_data) ==
    CASE self.cls = "PikComfortTicket" ->
             {self.attachments[i].id : i \in 1..Len(self.attachments)}
                 = {json_data.attachments[k].uid : k \in 1..Len(json_data.attachments)}
      [] self.cls = "PikComfortPayment" ->
             /\ self.source_details.icon_name = json_data.payment_point_details.icon_name
             /\ self.source_details.color = json_data.payment_point_details.color
      [] self.cls = "PikComfortAccount" ->
             /\ Len(self.tickets) = Len(json_data.tickets)
             /\ \A k \in 1..Len(self.tickets) :
                    self.tickets[k].description = json_data.tickets[k].description

\* C26: an update_from_json of a record that owns nested records either
\* raises, and then the record's own scalar is what it was before the
\* call, whatever the nested updates did until then; or returns, and then
\* the nested records hold what the payload says and the scalar is the
\* payload's.
C26_NestedBeforeScalars ==
    [][record_op'.name = "update" =>
          IF record_op'.raised # "none"
          THEN scalar_of(record') = scalar_of(record)
          ELSE /\ nested_done(record', record_op'.json_data)
               /\ scalar_of(record') = json_scalar(record'.cls, record_op'.json_data)]_vars

\* C26: the update of a payment raised KeyError in the update of its
\* payment point details, after the first attribute of the details was
\* assigned: the payment still has a timestamp other than the payload's.
C26_Witness ==
    /\ record.cls = "PikComfortPayment"
    /\ record_op.name = "update"
    /\ record_op.raised = "KeyError"
    /\ record.source_details.icon_name = "new"
    /\ record.source_details.color = "old"
    /\ record.timestamp # record_op.json_data.payment_date

\* --------------------------------------------------------------------
\* SpecNullable: an account or a classifier, built by create_from_json
\* and updated with payloads of the same identity whose nullable field
\* (the account's number, the classifier's hint) is a text, the empty
\* string, null, or missing
\* --------------------------------------------------------------------
\* the mapping with one more key
with_key(json_data, key, value) ==
    [k \in DOMAIN json_data \cup {key} |-> IF k = key THEN value ELSE json_data[k]]

NullableValues == {"text", "other text", "", NoneStr}

NullableKey(cls) == IF cls = "PikComfortAccount" THEN "number" ELSE "hint"

NullableJson(cls) ==
    LET base ==
            IF cls = "PikComfortAccount"
            THEN {[_uid |-> "a1", _type |-> "account", debt |-> debt, tickets |-> <<>>,
                   receipts |-> <<>>, meters |-> <<>>, payments |-> <<>>] :
                     debt \in Versions}
            ELSE {[_uid |-> "A", _type |-> "classifier", name |-> name,
                   parent |-> parent_id] :
                     name \in Versions, parent_id \in {NoneStr, "A", "B"}}
    IN base \cup {with_key(json_data, NullableKey(cls), value) :
                     json_data \in base, value \in NullableValues}

NullableInit ==
    \E cls \in {"PikComfortAccount", "TicketClassifier"} :
        \E json_data \in NullableJson(cls) :
            /\ record = IF cls = "PikComfortAccount"
                        THEN PikComfortAccount_create_from_json(json_data, 1)
                        ELSE create_from_json(cls, json_data, 1)
            /\ record_op = [name |-> "create", json_data |-> json_data, raised |-> "none"]

UpdateNullable(json_data) ==
    \E r \in {IF record.cls = "PikComfortAccount"
              THEN PikComfortAccount_update_from_json(record, json_data)
              ELSE update_from_json(record, json_data)} :
       /\ record' = r.obj
       /\ record_op' = [name |-> "update", json_data |-> json_data, raised |-> r.raised]

\* the nullable field of the record
nullable_of(self) ==
    IF self.cls = "PikComfortAccount" THEN self.number ELSE self.hint

\* C27: after a create_from_json, and after an update_from_json that
\* returned, the nullable field of the record is absent when the payload
\* carries the empty string or null for it, and is the payload's text
\* otherwise: the same for both operations.
C27_EmptyIsAbsent ==
    (record_op.name \in {"create", "update"} /\ record_op.raised = "none"
         /\ NullableKey(record.cls) \in DOMAIN record_op.json_data) =>
        LET value == record_op.json_data[NullableKey(record.cls)]
        IN nullable_of(record) = IF value \in {"", NoneStr} THEN NoneStr ELSE value

\* --------------------------------------------------------------------
\* Classifiers that name themselves as parent, in the list the client
\* caches (SpecTicket)
\* --------------------------------------------------------------------
\* the payload of the last classifier fetch names `id` as its own parent
names_itself(id) ==
    /\ api_op.name = "async_update_classifiers"
    /\ api_op.result.raised = "none"
    /\ \E k \in 1..Len(api_op.response.body.obj.results) :
           /\ api_op.response.body.obj.results[k]._uid = id
           /\ api_op.response.body.obj.results[k].parent = id

\* C29: no cached classifier has its own id as parent_id, none is the
\* parent it resolves to and none is among its own children; a classifier
\* that a fetch has just created or updated from a payload naming the
\* classifier itself as parent has no parent_id.
C29_NoSelfParent ==
    (api.cls = "PikComfortAPI" /\ ~api._classifiers.is_none) =>
        \A k \in 1..Len(api._classifiers.items) :
            LET classifier == api._classifiers.items[k]
            IN /\ classifier.parent_id # classifier.id
               /\ parent(classifier, api._classifiers).obj # classifier
               /\ \A j \in 1..Len(children(classifier, api._classifiers)) :
                      children(classifier, api._classifiers)[j] # classifier
               /\ has_children(classifier, api._classifiers) =>
                      \E j \in 1..Len(api._classifiers.items) :
                          /\ j # k
                          /\ api._classifiers.items[j].parent_id = classifier.id
               /\ names_itself(classifier.id) => classifier.parent_id = NoneStr

\* C29: a fetch has returned whose payload names A as the parent of A and
\* of B; the client caches A without a parent and with B as its only child
C29_Witness ==
    /\ api.cls = "PikComfortAPI"
    /\ ~api._classifiers.is_none
    /\ names_itself("A")
    /\ Len(api._classifiers.items) = 2
    /\ api._classifiers.items[1].id = "A"
    /\ api._classifiers.items[1].parent_id = NoneStr
    /\ has_children(api._classifiers.items[1], api._classifiers)
    /\ children(api._classifiers.items[1], api._classifiers) = <<api._classifiers.items[2]>>

\* --------------------------------------------------------------------
\* SpecEntry: the first step of the configuration flow (async_step_user)
\* and of the options flow (async_step_init), up to the entry, the OTP
\* input form or the form of the step shown again
\* --------------------------------------------------------------------
Digits == {"0", "1", "2", "3", "4", "5", "6", "7", "8", "9"}

\* --- re.sub(r"\D", "", string), from character i on
RECURSIVE sub_non_digits(_, _)
sub_non_digits(string, i) ==
    IF i > Len(string) THEN ""
    ELSE (IF SubSeq(string, i, i) \in Digits THEN SubSeq(string, i, i) ELSE "")
             \o sub_non_digits(string, i + 1)

\* --- str.strip(): the string without its leading and trailing blanks
RECURSIVE lstrip(_)
lstrip(string) ==
    IF string # "" /\ SubSeq(string, 1, 1) = " "
    THEN lstrip(SubSeq(string, 2, Len(string)))
    ELSE string

RECURSIVE rstrip(_)
rstrip(string) ==
    IF string # "" /\ SubSeq(string, Len(string), Len(string)) = " "
    THEN rstrip(SubSeq(string, 1, Len(string) - 1))
    ELSE string

strip(string) == rstrip(lstrip(string))

\* --- the phone number async_step_user derives from the input: digits
\* only, a leading 00 of 13 digits dropped, 10 digits prefixed with 7, a
\* leading 8 of 11 digits replaced by 7
without_prefix(phone_number) ==
    IF Len(phone_number) = 13 /\ SubSeq(phone_number, 1, 2) = "00"
    THEN SubSeq(phone_number, 3, Len(phone_number))
    ELSE phone_number

with_country_code(phone_number) ==
    IF Len(phone_number) = 10 THEN "7" \o phone_number
    ELSE IF Len(phone_number) = 11 /\ SubSeq(phone_number, 1, 1) = "8"
    THEN "7" \o SubSeq(phone_number, 2, Len(phone_number))
    ELSE phone_number

phone_number_of(user_input) ==
    with_country_code(without_prefix(sub_non_digits(user_input.phone_number, 1)))

\* --- (user_input.get(CONF_TOKEN) or "").strip() or None
auth_token_of(user_input) ==
    or_none(strip(IF or_none(json_get(user_input, "token")) = NoneStr THEN ""
                  ELSE user_input.token))

\* --- async_show_form of the step `step_id`
show_step_form(self, step_id, errors, requests) ==
    [flow |-> self,
     result |-> [type |-> "form", step_id |-> step_id, errors |-> errors],
     requests |-> requests]

\* --- how _async_test_authentication ends: with the exception `error`,
\* or with the result of the flow; `token` is the token it gave the client
test_raised(self, error) ==
    [raised |-> error.raised, error |-> error, flow |-> self, result |-> None,
     requests |-> error.requests, token |-> self._auth_token]

test_returned(self, out, requests) ==
    [raised |-> "none", error |-> None, flow |-> out.flow, result |-> out.result,
     requests |-> requests, token |-> self._auth_token]

\* --- _create_entry of the configuration flow and of the options flow
flow_create_entry(self, requests) ==
    IF self.cls = "PikComfortOptionsFlow"
    THEN test_returned(self,
                       [flow |-> self,
                        result |-> [type |-> "create_entry",
                                    data |-> [device_name |-> self._device_name,
                                              token |-> self._auth_token,
                                              scan_interval |-> self._scan_interval]]],
                       requests)
    ELSE IF self._auth_token = NoneStr \/ self._phone_number = NoneStr
    THEN test_raised(self, raises("AssertionError", <<>>, requests))
    ELSE test_returned(self, create_entry(self, requests), requests)

\* the branch without a token, async_request_otp_code having ended as r:
\* the expiry instant is stored and the OTP input step is entered
otp_code_requested(self, now, response, r) ==
    IF r.raised # "none" THEN test_raised(self, r)
    ELSE test_returned(
             self,
             async_step_otp_input([self EXCEPT !._otp_expires_at = now + r.data],
                                  None, now, response),
             r.requests)

\* the branch with a token, async_update_info having ended as u
token_tested(self, u) ==
    IF u.result.raised # "none" THEN test_raised(self, u.result)
    ELSE flow_create_entry(self, u.result.requests)

\* _async_test_authentication requesting a code whether a token is held
\* or not
async_test_authentication_by_code(self, now, response) ==
    otp_code_requested(
        self, now, response,
        async_request_otp_code(PikComfortAPI_init(self._phone_number, self._auth_token),
                               response))

\* --- _WithOTPInput._async_test_authentication
async_test_authentication(self, now, response) ==
    IF ~is_authenticated(PikComfortAPI_init(self._phone_number, self._auth_token))
    THEN otp_code_requested(
             self, now, response,
             async_request_otp_code(
                 PikComfortAPI_init(self._phone_number, self._auth_token), response))
    ELSE token_tested(
             self,
             async_update_info(PikComfortAPI_init(self._phone_number, self._auth_token),
                               response))

\* the outcome of a step: what it shows or creates, and whether and with
\* which token _async_test_authentication was called
step_outcome(out, tested, token) ==
    [flow |-> out.flow, result |-> out.result, requests |-> out.requests,
     tested |-> tested, token |-> token]

\* the try statement of async_step_user, _async_test_authentication
\* having ended as t
user_tested(self, t) ==
    IF t.raised # "none"
    THEN step_outcome(
             show_step_form(self, "user",
                            {<<"base", handle_exception(t.error).intl_error_code>>},
                            t.requests),
             TRUE, t.token)
    ELSE step_outcome(t, TRUE, t.token)

\* --- PikComfortConfigFlow.async_step_user
async_step_user(self, user_input, now, response) ==
    IF user_input = None
    THEN step_outcome(show_step_form(self, "user", {}, <<>>), FALSE, NoneStr)
    ELSE IF Len(phone_number_of(user_input)) # 11
            \/ SubSeq(phone_number_of(user_input), 1, 1) # "7"
    THEN step_outcome(
             show_step_form(self, "user", {<<"phone_number", "phone_number_invalid">>},
                            <<>>),
             FALSE, NoneStr)
    ELSE user_tested(
             [self EXCEPT !._device_name = user_input.device_name,
                          !._auth_token = auth_token_of(user_input),
                          !._phone_number = phone_number_of(user_input)],
             async_test_authentication(
                 [self EXCEPT !._device_name = user_input.device_name,
                              !._auth_token = auth_token_of(user_input),
                              !._phone_number = phone_number_of(user_input)],
                 now, response))

\* --- self._scan_interval < MIN_SCAN_INTERVAL, on intervals named by
\* their place relative to MIN_SCAN_INTERVAL
ScanIntervals == {"below MIN_SCAN_INTERVAL", "MIN_SCAN_INTERVAL", "above MIN_SCAN_INTERVAL"}

scan_interval_too_low(scan_interval) == scan_interval = "below MIN_SCAN_INTERVAL"

\* the try statement of async_step_init, _async_test_authentication
\* having ended as t; after an exception the token of the input is
\* stored again
init_tested(self, auth_token, t) ==
    IF t.raised # "none"
    THEN step_outcome(
             show_step_form([self EXCEPT !._auth_token = auth_token], "init",
                            {<<"base", handle_exception(t.error).intl_error_code>>},
                            t.requests),
             TRUE, t.token)
    ELSE step_outcome(t, TRUE, t.token)

\* the fields async_step_init stores from the input
init_stored(self, user_input) ==
    [self EXCEPT !._scan_interval = user_input.scan_interval,
                 !._device_name = user_input.device_name,
                 !._auth_token = IF "request_new_token" \in DOMAIN user_input
                                        /\ user_input.request_new_token
                                 THEN NoneStr ELSE user_input.token]

\* --- PikComfortOptionsFlow.async_step_init
async_step_init(self, user_input, now, response) ==
    IF user_input = None
    THEN step_outcome(show_step_form(self, "init", {}, <<>>), FALSE, NoneStr)
    ELSE IF scan_interval_too_low(user_input.scan_interval)
    THEN step_outcome(
             show_step_form([init_stored(self, user_input)
                                EXCEPT !._auth_token = user_input.token],
                            "init", {<<"scan_interval", "scan_interval_too_low">>}, <<>>),
             FALSE, NoneStr)
    ELSE init_tested(init_stored(self, user_input), user_input.token,
                     async_test_authentication(init_stored(self, user_input), now,
                                               response))

\* what the form of the user step lets through: a phone number as typed,
\* a device name, and a token or none
PhoneNumbers ==
    {"+7 (900) 123-45-67", "89001234567", "9001234567", "0079001234567", "12345"}

UserInputs ==
    {None}
        \cup {[phone_number |-> p, device_name |-> "EFGH"] : p \in PhoneNumbers}
        \cup {[phone_number |-> p, device_name |-> "EFGH", token |-> t] :
                 p \in PhoneNumbers, t \in {"", " ", "bearer0", " bearer0 "}}

\* what the form of the options step lets through
InitInputs ==
    {None}
        \cup {[token |-> t, device_name |-> "EFGH", scan_interval |-> s,
               request_new_token |-> b] :
                 t \in {"", "bearer0", "bearer1"}, s \in ScanIntervals, b \in BOOLEAN}

SnapshotUrl == "/api/v8/aggregate/dashboard-list/"

Snapshot(count) ==
    HttpResponse(DEFAULT_EXPECTED_STATUS,
                 [type |-> "object",
                  obj |-> [count |-> count,
                           results |-> <<InfoJson("u1", "old", <<"a1">>)>>]])

EntryResponses ==
    {[kind |-> "ClientError"], [kind |-> "TimeoutError"], Rejected, Accepted("bearer1"),
     HttpResponse(DEFAULT_EXPECTED_STATUS, [type |-> "object", obj |-> [ttl |-> 1]]),
     Snapshot(0), Snapshot(1)}

\* a configuration flow as the user starts it, or an options flow of an
\* entry that holds a token
EntryInit ==
    /\ flow \in {[cls |-> "PikComfortConfigFlow", _device_name |-> "ABCD",
                   _phone_number |-> NoneStr, _auth_token |-> NoneStr,
                   _otp_expires_at |-> NoneNum],
                  [cls |-> "PikComfortOptionsFlow", _device_name |-> "ABCD",
                   _phone_number |-> "79001234567", _auth_token |-> "bearer0",
                   _otp_expires_at |-> NoneNum,
                   _scan_interval |-> "above MIN_SCAN_INTERVAL"]}
    /\ flow_op = [name |-> "none"]
    /\ clock = 0

\* the flow shows the form of the step `step_id`, or has shown nothing yet
at_step(step_id) ==
    IF flow_op.name = "none" THEN TRUE
    ELSE flow_op.result.type = "form" /\ flow_op.result.step_id = step_id

step_done(name, user_input, response, r) ==
    [name |-> name, user_input |-> user_input, response |-> response,
     result |-> r.result, requests |-> r.requests, tested |-> r.tested,
     token |-> r.token]

StepUser(user_input, response) ==
    /\ flow.cls = "PikComfortConfigFlow"
    /\ at_step("user")
    /\ \E r \in {async_step_user(flow, user_input, clock, response)} :
          /\ flow' = r.flow
          /\ flow_op' = step_done("async_step_user", user_input, response, r)
    /\ UNCHANGED clock

StepInit(user_input, response) ==
    /\ flow.cls = "PikComfortOptionsFlow"
    /\ at_step("init")
    /\ \E r \in {async_step_init(flow, user_input, clock, response)} :
          /\ flow' = r.flow
          /\ flow_op' = step_done("async_step_init", user_input, response, r)
    /\ UNCHANGED clock

\* the requests of the last step that went to `url`
calls(url) == {i \in 1..Len(flow_op.requests) : flow_op.requests[i].url = url}

\* C30: a step of the configuration or options flow that tests the
\* authentication while holding a token sends no code request and no
\* verify request, fetches the snapshot exactly once, and creates the
\* entry exactly when the server answers that fetch with a snapshot of
\* at least one result; the OTP input form is shown only by a step that
\* held no token and after exactly one code request; a step that rejects
\* its input sends nothing.
C30_TokenSkipsOtp ==
    flow_op.name \in {"async_step_user", "async_step_init"} =>
        /\ (flow_op.tested /\ flow_op.token # NoneStr) =>
               /\ calls("/request-sms-password/") = {}
               /\ calls("/api-token-auth/") = {}
               /\ Cardinality(calls(SnapshotUrl)) = 1
               /\ Len(flow_op.requests) = 1
               /\ flow_op.result.type = "create_entry" <=> flow_op.response = Snapshot(1)
               /\ flow_op.result.type = "form" => flow_op.result.step_id # "otp_input"
        /\ (flow_op.result.type = "form" /\ flow_op.result.step_id = "otp_input") =>
               /\ flow_op.tested
               /\ flow_op.token = NoneStr
               /\ Cardinality(calls("/request-sms-password/")) = 1
               /\ Len(flow_op.requests) = 1
        /\ ~flow_op.tested =>
               /\ flow_op.requests = <<>>
               /\ flow_op.result.type = "form"
               /\ flow_op.result.step_id # "otp_input"

\* C30: the user step was given a phone number and the token "bearer0"
\* between blanks; it has fetched the snapshot once and created the entry
\* with that token
C30_Witness ==
    /\ flow_op.name = "async_step_user"
    /\ flow_op.user_input # None
    /\ "token" \in DOMAIN flow_op.user_input
    /\ flow_op.user_input.token = " bearer0 "
    /\ flow_op.result.type = "create_entry"
    /\ flow_op.result.data.token = "bearer0"
    /\ flow_op.result.data.phone_number = "79001234567"
    /\ Len(flow_op.requests) = 1
    /\ flow_op.requests[1].url = SnapshotUrl

\* C30: the options step was asked for a new token; it has requested one
\* code and shows the OTP input form
C30_WitnessOtp ==
    /\ flow_op.name = "async_step_init"
    /\ flow_op.user_input # None
    /\ flow_op.user_input.request_new_token
    /\ flow_op.token = NoneStr
    /\ flow_op.result.type = "form"
    /\ flow_op.result.step_id = "otp_input"
    /\ flow._otp_expires_at = 1
    /\ Len(flow_op.requests) = 1
    /\ flow_op.requests[1].url = "/request-sms-password/"

\* C30: the options step held a token that the server refused; it shows
\* its own form again with an error and has created no entry
C30_WitnessRefused ==
    /\ flow_op.name = "async_step_init"
    /\ flow_op.tested
    /\ flow_op.token = "bearer1"
    /\ flow_op.response = Rejected
    /\ flow_op.result.type = "form"
    /\ flow_op.result.step_id = "init"
    /\ flow_op.result.errors = {<<"base", "server_error">>}

\* --------------------------------------------------------------------
\* SpecSubmit: async_submit_readings of a meter with no, one or two
\* tariffs, called with a mapping, a list, a float or an int, on a client
\* with or without a token
\* --------------------------------------------------------------------
MaxZones == 2         \* most values a call carries

\* --- the iterator async_submit_readings walks: the items of a mapping,
\* (1, values) for a float, enumerate(values, start=1) otherwise; an int
\* cannot be enumerated
readings_iterator(values) ==
    CASE values.kind = "Mapping" -> [raised |-> "none", items |-> values.items]
      [] values.kind = "float" -> [raised |-> "none", items |-> <<<<1, values.value>>>>]
      [] values.kind = "Iterable" ->
             [raised |-> "none",
              items |-> [k \in 1..Len(values.list) |-> <<k, values.list[k]>>]]
      [] values.kind = "int" -> [raised |-> "TypeError", items |-> <<>>]

\* async_submit_readings on the values as the caller passes them
submit_values(self, api_object, values, iterator, response) ==
    IF ~is_authenticated(api_object)
    THEN async_submit_readings(self, api_object, <<>>, response)
    ELSE IF iterator.raised # "none" THEN raises(iterator.raised, <<>>, <<>>)
    ELSE async_submit_readings(self, api_object, iterator.items, response)

SubmitMeterJson ==
    {[_uid |-> "m1", _type |-> "meter",
      tariffs |-> [k \in 1..Len(types) |->
                      [type |-> types[k], value |-> 100, user_value |-> NoneNum]]] :
        types \in {<<>>, <<1>>, <<2>>, <<1, 2>>, <<2, 1>>}}

SubmitValues ==
    {[kind |-> "Mapping", items |-> items] :
        items \in {[k \in 1..Len(z) |-> <<z[k], 50 + k>>] :
                      z \in {s \in SeqsUpTo(1..(MaxZones + 1), MaxZones) :
                                \A i, j \in 1..Len(s) : i # j => s[i] # s[j]}}}
        \cup {[kind |-> "Iterable", list |-> list] : list \in SeqsUpTo({50}, MaxZones)}
        \cup {[kind |-> "float", value |-> 50], [kind |-> "int", value |-> 50]}

SubmitResponses ==
    {[kind |-> "ClientError"], [kind |-> "TimeoutError"], Rejected,
     HttpResponse(DEFAULT_EXPECTED_STATUS, [type |-> "array", items |-> <<>>]),
     HttpResponse(HTTP_CREATED, [type |-> "array", items |-> <<>>]),
     HttpResponse(HTTP_CREATED, [type |-> "object", obj |-> [code |-> "ok"]])}

SubmitInit ==
    \E token \in {NoneStr, "token"} :
        /\ api = PikComfortAPI_init("79001234567", token)
        /\ api_op = [name |-> "none"]

SubmitMeterReadings(json_data, values, response) ==
    /\ api_op' = [name |-> "async_submit_readings",
                  self |-> PikComfortMeter_create_from_json(json_data, 1),
                  values |-> values, response |-> response,
                  result |-> submit_values(
                                 PikComfortMeter_create_from_json(json_data, 1), api,
                                 values, readings_iterator(values), response)]
    /\ UNCHANGED api

\* the zones a call supplies with their values: the keys of a mapping,
\* the positions of a list counted from 1, zone 1 for a float
supplied(values) ==
    CASE values.kind = "Mapping" -> values.items
      [] values.kind = "Iterable" -> [k \in 1..Len(values.list) |-> <<k, values.list[k]>>]
      [] values.kind = "float" -> <<<<1, values.value>>>>
      [] values.kind = "int" -> <<>>

\* the meter has a tariff of every zone supplied
supplied_exist(self, values) ==
    \A k \in 1..Len(supplied(values)) :
        \E i \in 1..Len(self.tariffs) : self.tariffs[i].type = supplied(values)[k][1]

\* the key of zone 1 of meter m1 is "m11", that of zone 2 is "m12"
composite_key(meter_id, zone) ==
    CASE zone = 1 -> meter_id \o "1"
      [] zone = 2 -> meter_id \o "2"

\* C32: on a client with a token, a call that supplies a zone the meter
\* does not have raises ValueError and sends nothing; a call all of whose
\* zones exist sends one request whose body has one entry per supplied
\* zone, in the order supplied, with the value, the zone, the meter id
\* and the meter id followed by the zone number as key; it returns only
\* when the answer has the status 201, and an answer with any other
\* status raises "Could not submit readings".
C32_SubmitAllOrNothing ==
    (api_op.name = "async_submit_readings" /\ is_authenticated(api)
         /\ api_op.values.kind # "int") =>
        IF ~supplied_exist(api_op.self, api_op.values)
        THEN /\ api_op.result.raised = "ValueError"
             /\ api_op.result.requests = <<>>
        ELSE /\ Len(api_op.result.requests) = 1
             /\ Len(api_op.result.requests[1].data) = Len(supplied(api_op.values))
             /\ \A k \in 1..Len(supplied(api_op.values)) :
                    api_op.result.requests[1].data[k] =
                        [value |-> supplied(api_op.values)[k][2],
                         tariff_type |-> supplied(api_op.values)[k][1],
                         meter |-> api_op.self.id,
                         meter_reading_uid |->
                             composite_key(api_op.self.id, supplied(api_op.values)[k][1])]
             /\ api_op.result.raised = "none" =>
                    /\ api_op.response.kind = "response"
                    /\ api_op.response.status = HTTP_CREATED
             /\ (api_op.response.kind = "response"
                     /\ api_op.response.status # HTTP_CREATED) =>
                    /\ api_op.result.raised = "PikComfortException"
                    /\ api_op.result.args = <<"Could not submit readings">>

\* C32: zone 1, which the meter has, and zone 3, which it does not have,
\* were supplied in that order: ValueError, and nothing was sent
C32_Witness ==
    /\ api_op.name = "async_submit_readings"
    /\ is_authenticated(api)
    /\ api_op.values.kind = "Mapping"
    /\ [k \in 1..Len(api_op.values.items) |-> api_op.values.items[k][1]] = <<1, 3>>
    /\ \E i \in 1..Len(api_op.self.tariffs) : api_op.self.tariffs[i].type = 1
    /\ api_op.result.raised = "ValueError"
    /\ api_op.result.requests = <<>>

\* C32: zones 2 and 1 of a meter that has both were supplied and the
\* server answered 201: the body sent has the keys "m12" and "m11"
C32_WitnessCreated ==
    /\ api_op.name = "async_submit_readings"
    /\ api_op.result.raised = "none"
    /\ Len(api_op.result.requests) = 1
    /\ [k \in 1..Len(api_op.result.requests[1].data) |->
           api_op.result.requests[1].data[k].meter_reading_uid] = <<"m12", "m11">>

\* --------------------------------------------------------------------
\* SpecLife: the config entries of two accounts, each from
\* async_setup_entry through the setup of its platforms to
\* async_unload_entry, and again
\* --------------------------------------------------------------------
HassIdle ==
    /\ hass = [cls |-> "none"]
    /\ hass_op = [name |-> "none"]

\* the platforms of the integration, and one that is not among them
SUPPORTED_PLATFORMS == {"binary_sensor", "sensor"}
Platforms == SUPPORTED_PLATFORMS \cup {"climate"}

\* the keys of hass.data that hold one value per config entry
Registries ==
    {"DOMAIN", "DATA_ENTITIES", "DATA_FINAL_CONFIG", "DATA_PLATFORM_ENTITY_REGISTRARS",
     "DATA_UPDATE_ROUTINES", "DATA_UPDATE_LISTENERS"}

NumEntries == 2       \* config entries of the integration
Entries == 1..NumEntries

\* Home Assistant before the entries are set up; for each entry, `data`
\* tells for each registry whether it holds the entry id
LifeInit ==
    /\ hass = [entry_id \in Entries |->
                  [cls |-> "ConfigEntry", entry_state |-> "not_loaded",
                   data |-> [reg \in Registries |-> FALSE],
                   registrars |-> {}, forwarded |-> {}, session |-> "none",
                   listener |-> "none", timers |-> 0, installs |-> 0,
                   installer |-> "none", passes |-> 0,
                   platform_pc |-> [domain \in Platforms |-> "idle"],
                   unload_pc |-> "idle"]]
    /\ hass_op = [name |-> "none"]

\* hass.data[reg][entry_id] = ... for every reg of regs
data_set(data, regs) == [reg \in Registries |-> IF reg \in regs THEN TRUE ELSE data[reg]]

\* hass.data[reg].pop(entry_id) for every reg of regs
data_pop(data, regs) == [reg \in Registries |-> IF reg \in regs THEN FALSE ELSE data[reg]]

\* --- the rest of async_setup_entry, async_update_info having ended as r
setup_entry_fetched(self, r) ==
    IF r.result.raised = "none"
    THEN [hass |-> [self EXCEPT !.data = data_set(self.data,
                                                    Registries \ {"DATA_UPDATE_ROUTINES"}),
                                !.registrars = {}, !.forwarded = SUPPORTED_PLATFORMS,
                                !.session = "open", !.listener = "active",
                                !.installs = 0, !.installer = "none", !.passes = 0,
                                !.platform_pc = [domain \in Platforms |-> "idle"],
                                !.entry_state = "loaded"],
          raised |-> "none"]
    ELSE IF isinstance(r.result.raised, "PikComfortException")
    THEN [hass |-> [self EXCEPT !.session = "closed", !.entry_state = "setup_retry"],
          raised |-> "ConfigEntryNotReady"]
    ELSE [hass |-> [self EXCEPT !.session = "open", !.entry_state = "setup_error"],
          raised |-> r.result.raised]

\* --- async_setup_entry of __init__.py: the client is constructed with
\* the token of the entry and the snapshot is fetched
async_setup_entry(self, response) ==
    setup_entry_fetched(
        self, async_update_info(PikComfortAPI_init("79001234567", "token"), response))

SetupEntry(entry_id, response) ==
    /\ hass[entry_id].entry_state \in {"not_loaded", "setup_retry"}
    /\ \E r \in {async_setup_entry(hass[entry_id], response)} :
          /\ hass' = [hass EXCEPT ![entry_id] = r.hass]
          /\ hass_op' = [name |-> "async_setup_entry", entry_id |-> entry_id,
                         response |-> response,
                         raised |-> r.raised]

\* async_setup_entry_for_platforms installing the refresh routine
\* whichever platform registers
setup_platform_first(self, domain) ==
    IF domain \notin SUPPORTED_PLATFORMS
    THEN [hass |-> self, raised |-> "ConfigEntryNotReady"]
    ELSE IF ~self.data["DATA_PLATFORM_ENTITY_REGISTRARS"]
    THEN [hass |-> [self EXCEPT !.platform_pc[domain] = "raised"], raised |-> "KeyError"]
    ELSE [hass |-> [self EXCEPT !.registrars = self.registrars \cup {domain},
                                !.platform_pc[domain] = "pass"],
          raised |-> "none"]

\* --- async_setup_entry_for_platforms up to its first await: the
\* platform registers its registrar, and the one that completes the set
\* starts the initial entity pass
setup_platform(self, domain) ==
    IF domain \notin SUPPORTED_PLATFORMS
    THEN [hass |-> self, raised |-> "ConfigEntryNotReady"]
    ELSE IF ~self.data["DATA_PLATFORM_ENTITY_REGISTRARS"]
    THEN [hass |-> [self EXCEPT !.platform_pc[domain] = "raised"], raised |-> "KeyError"]
    ELSE IF Cardinality(self.registrars \cup {domain}) # Cardinality(SUPPORTED_PLATFORMS)
    THEN [hass |-> [self EXCEPT !.registrars = self.registrars \cup {domain},
                                !.platform_pc[domain] = "done"],
          raised |-> "none"]
    ELSE [hass |-> [self EXCEPT !.registrars = self.registrars \cup {domain},
                                !.platform_pc[domain] = "pass"],
          raised |-> "none"]

\* the setup of a platform Home Assistant was asked to forward, or of one
\* the integration does not support
PlatformSetup(entry_id, domain) ==
    /\ hass[entry_id].entry_state = "loaded"
    /\ hass[entry_id].platform_pc[domain] = "idle"
    /\ domain \in hass[entry_id].forwarded \/ domain \notin SUPPORTED_PLATFORMS
    /\ \E r \in {setup_platform(hass[entry_id], domain)} :
          /\ hass' = [hass EXCEPT ![entry_id] = r.hass]
          /\ hass_op' = [name |-> "async_setup_entry_for_platforms",
                         entry_id |-> entry_id, domain |-> domain, raised |-> r.raised]

\* --- the rest of async_setup_entry_for_platforms: the initial entity
\* pass has ended, its exception if any is logged, and the refresh routine
\* is stored with its timer
routine_installed(self, domain) ==
    IF ~self.data["DATA_FINAL_CONFIG"]
    THEN [hass |-> [self EXCEPT !.passes = 1, !.platform_pc[domain] = "raised"],
          raised |-> "KeyError"]
    ELSE [hass |-> [self EXCEPT !.passes = 1,
                                !.data = data_set(self.data, {"DATA_UPDATE_ROUTINES"}),
                                !.timers = self.timers + 1,
                                !.installs = self.installs + 1,
                                !.installer = domain,
                                !.platform_pc[domain] = "done"],
          raised |-> "none"]

PassDone(entry_id, domain, pass_raised) ==
    /\ hass[entry_id].platform_pc[domain] = "pass"
    /\ \E r \in {routine_installed(hass[entry_id], domain)} :
          /\ hass' = [hass EXCEPT ![entry_id] = r.hass]
          /\ hass_op' = [name |-> "initial_pass", entry_id |-> entry_id,
                         domain |-> domain, pass_raised |-> pass_raised,
                         raised |-> r.raised]

\* --- async_unload_entry up to the await of async_close: the platforms
\* have answered `unloaded`; when all did, no platform of the entry is set
\* up any more, the timer and the listener are cancelled and the client is
\* taken out of hass.data
unload_entry(self, unloaded) ==
    IF \E domain \in SUPPORTED_PLATFORMS : ~unloaded[domain]
    THEN [hass |-> self, raised |-> "none", returned |-> "False"]
    ELSE IF ~self.data["DATA_UPDATE_ROUTINES"]
    THEN [hass |-> [self EXCEPT !.forwarded = {}, !.entry_state = "failed_unload"],
          raised |-> "KeyError", returned |-> "none"]
    ELSE [hass |-> [self EXCEPT !.forwarded = {},
                                !.data = data_pop(self.data,
                                                    {"DATA_UPDATE_ROUTINES",
                                                     "DATA_UPDATE_LISTENERS", "DOMAIN"}),
                                !.timers = self.timers - 1,
                                !.listener = "cancelled",
                                !.unload_pc = "closing"],
          raised |-> "none", returned |-> "none"]

Unload(entry_id, unloaded) ==
    /\ hass[entry_id].entry_state = "loaded"
    /\ hass[entry_id].unload_pc = "idle"
    /\ \E r \in {unload_entry(hass[entry_id], unloaded)} :
          /\ hass' = [hass EXCEPT ![entry_id] = r.hass]
          /\ hass_op' = [name |-> "async_unload_entry", entry_id |-> entry_id,
                         unloaded |-> unloaded, raised |-> r.raised,
                         returned |-> r.returned]

\* --- the rest of async_unload_entry: async_close has returned, has
\* raised, or the task was cancelled while it awaited
unload_closed(self, closed) ==
    IF closed = "returned"
    THEN [hass |-> [self EXCEPT !.data = data_pop(self.data,
                                                    {"DATA_FINAL_CONFIG", "DATA_ENTITIES",
                                                     "DATA_PLATFORM_ENTITY_REGISTRARS"}),
                                !.session = "closed",
                                !.unload_pc = "idle",
                                !.entry_state = "not_loaded"],
          raised |-> "none", returned |-> "True"]
    ELSE [hass |-> [self EXCEPT !.unload_pc = "idle", !.entry_state = "failed_unload"],
          raised |-> closed, returned |-> "none"]

UnloadClosed(entry_id, closed) ==
    /\ hass[entry_id].unload_pc = "closing"
    /\ \E r \in {unload_closed(hass[entry_id], closed)} :
          /\ hass' = [hass EXCEPT ![entry_id] = r.hass]
          /\ hass_op' = [name |-> "async_unload_entry", entry_id |-> entry_id,
                         unloaded |-> [domain \in SUPPORTED_PLATFORMS |-> TRUE],
                         raised |-> r.raised, returned |-> r.returned]

LifeResponses ==
    {[kind |-> "ClientError"], [kind |-> "TimeoutError"], Rejected,
     HttpResponse(DEFAULT_EXPECTED_STATUS, [type |-> "array", items |-> <<>>]),
     Snapshot(1)}
        \cup {HttpResponse(DEFAULT_EXPECTED_STATUS,
                           [type |-> "object", obj |-> obj]) :
                 obj \in {[count |-> 0, results |-> <<>>], [count |-> 1, results |-> <<>>],
                          [count |-> 1]}}

\* the registries async_setup_entry fills for an entry
SetupRegistries == Registries \ {"DATA_UPDATE_ROUTINES"}

\* the entry id is in every registry async_setup_entry fills, or in none
in_all_or_none(entry) ==
    \/ \A reg \in SetupRegistries : entry.data[reg]
    \/ \A reg \in Registries : ~entry.data[reg]

\* the last call was async_unload_entry of the entry and it has ended
unload_ended(entry_id) ==
    /\ hass_op.name = "async_unload_entry"
    /\ hass_op.entry_id = entry_id
    /\ hass[entry_id].unload_pc = "idle"

begins_pass(entry_id, domain) ==
    /\ hass[entry_id].platform_pc[domain] = "idle"
    /\ hass'[entry_id].platform_pc[domain] = "pass"

\* the refresh routine of the entry is stored with its timer in this step
installs_routine(entry_id) == hass'[entry_id].installs > hass[entry_id].installs

\* C36: in every step and for every entry, a platform goes on to the initial
\* entity pass only when its registrar completes the set of the supported
\* platforms, every other platform having registered before it; a platform
\* that registers earlier ends its setup, and leaves the routine, the timer
\* and the pass alone; the routine and the timer are installed by the
\* platform that ran the pass, when the pass has ended, once in the load of
\* the entry, and a timer is armed only with the routine.
C36_LastPlatformInstallsOnce ==
    [][\A entry_id \in Entries :
           /\ \A domain \in Platforms :
                  /\ begins_pass(entry_id, domain) =>
                         /\ domain \in SUPPORTED_PLATFORMS
                         /\ hass[entry_id].registrars = SUPPORTED_PLATFORMS \ {domain}
                         /\ hass'[entry_id].registrars = SUPPORTED_PLATFORMS
                  /\ (hass[entry_id].platform_pc[domain] = "idle"
                          /\ hass'[entry_id].platform_pc[domain] = "done") =>
                         /\ hass'[entry_id].registrars # SUPPORTED_PLATFORMS
                         /\ domain \in hass'[entry_id].registrars
                         /\ hass'[entry_id].installs = hass[entry_id].installs
                         /\ hass'[entry_id].timers = hass[entry_id].timers
                         /\ hass'[entry_id].passes = hass[entry_id].passes
           /\ installs_routine(entry_id) =>
                  /\ hass[entry_id].installs = 0
                  /\ hass'[entry_id].installs = 1
                  /\ hass[entry_id].registrars = SUPPORTED_PLATFORMS
                  /\ hass[entry_id].platform_pc[hass'[entry_id].installer] = "pass"
                  /\ hass'[entry_id].passes = 1
                  /\ hass'[entry_id].timers = hass[entry_id].timers + 1
                  /\ hass'[entry_id].data["DATA_UPDATE_ROUTINES"]
           /\ hass'[entry_id].timers > hass[entry_id].timers =>
                  installs_routine(entry_id)
           /\ hass'[entry_id].timers \in {0, 1}]_vars

\* C36 witness: binary_sensor registered first and ended its setup, sensor
\* registered last, ran the initial pass and has installed the routine and
\* the one timer of the entry
C36_Witness ==
    /\ hass_op.name = "initial_pass"
    /\ hass_op.entry_id = 1
    /\ hass_op.domain = "sensor"
    /\ hass_op.raised = "none"
    /\ hass[1].installs = 1
    /\ hass[1].installer = "sensor"
    /\ hass[1].timers = 1
    /\ hass[1].passes = 1
    /\ hass[1].registrars = SUPPORTED_PLATFORMS
    /\ hass[1].platform_pc["binary_sensor"] = "done"

\* C36 witness: the first platform of an entry has registered and ended its
\* setup with nothing installed
C36_WitnessEarlier ==
    /\ hass_op.name = "async_setup_entry_for_platforms"
    /\ hass_op.entry_id = 1
    /\ hass_op.raised = "none"
    /\ hass[1].registrars = {hass_op.domain}
    /\ hass[1].platform_pc[hass_op.domain] = "done"
    /\ hass[1].installs = 0
    /\ hass[1].timers = 0
    /\ ~hass[1].data["DATA_UPDATE_ROUTINES"]

\* the last call was async_setup_entry of the entry and it ended with an
\* exception
setup_failed(entry_id) ==
    /\ hass_op.name = "async_setup_entry"
    /\ hass_op.entry_id = entry_id
    /\ hass_op.raised # "none"

\* C37: when async_setup_entry of an entry has ended with an exception, the
\* session of its client is closed, the id of the entry is in no registry,
\* no platform of the entry is forwarded, and the exception is
\* ConfigEntryNotReady (the entry will be set up again); and an entry whose
\* id is in a registry has been set up by a fetch that succeeded.
C37_FailedFetchLeavesNothing ==
    \A entry_id \in Entries :
        /\ setup_failed(entry_id) =>
               /\ hass[entry_id].session = "closed"
               /\ \A reg \in Registries : ~hass[entry_id].data[reg]
               /\ hass[entry_id].forwarded = {}
               /\ hass_op.raised = "ConfigEntryNotReady"
               /\ hass[entry_id].entry_state = "setup_retry"
        /\ (\E reg \in Registries : hass[entry_id].data[reg]) =>
               hass[entry_id].entry_state \in {"loaded", "failed_unload"}

\* --------------------------------------------------------------------
\* SpecEntities: the entity update pass of the binary_sensor platform,
\* async_process_update, with the meters of the model changing between
\* passes and the entities registering and deregistering themselves
\* --------------------------------------------------------------------
MaxEntities == 4      \* PikComfortMeterSensor objects constructed

\* the meters the accounts of the model can hold, in the order of a pass
MeterKeys == {[type |-> "cold", id |-> "m1"], [type |-> "hot", id |-> "m2"]}

ModelMeters ==
    {<<>>} \cup {<<meter>> : meter \in MeterKeys}
           \cup {meters \in MeterKeys \X MeterKeys : meters[1] # meters[2]}

\* --- PikComfortMeterSensor.__init__
PikComfortMeterSensor_init(oid, meter) ==
    [cls |-> "PikComfortMeterSensor", oid |-> oid, meter_type |-> meter.type,
     meter_id |-> meter.id]

\* hass.data[DATA_ENTITIES][entry_id][PikComfortMeterSensor] is `entities`
\* (registered); `adding` are the entities handed to async_add_entities
\* that have not run async_added_to_hass yet, `removing` the ids of the
\* entities with an async_remove task
EntitiesInit ==
    /\ hass \in {[cls |-> "HomeAssistant", meters |-> meters, entities |-> <<>>,
                  adding |-> {}, removing |-> {}, created |-> 0] :
                    meters \in ModelMeters}
    /\ hass_op = [name |-> "none"]

\* `for entity in meter_entities: if (entity.meter_type, entity.meter_id) ==
\* meter_key`: the index of the first such entity, 0 for None
RECURSIVE existing_entity(_, _, _)
existing_entity(meter_entities, meter, i) ==
    IF i > Len(meter_entities) THEN 0
    ELSE IF meter_entities[i].meter_type = meter.type
            /\ meter_entities[i].meter_id = meter.id
    THEN i
    ELSE existing_entity(meter_entities, meter, i + 1)

\* list.remove(entity) on a list of entities, which are equal when they
\* are the same object
RECURSIVE entities_remove(_, _)
entities_remove(list, entity) ==
    IF list = <<>> THEN <<>>
    ELSE IF Head(list).oid = entity.oid THEN Tail(list)
    ELSE <<Head(list)>> \o entities_remove(Tail(list), entity)

\* the body of `for meter in account.meters`, `existing` being the index of
\* the existing entity
meter_processed(meter_entities, meter, existing, run) ==
    IF existing = 0
    THEN [run EXCEPT !.new_entities =
                         Append(@, PikComfortMeterSensor_init(run.created + 1, meter)),
                     !.created = @ + 1]
    ELSE [run EXCEPT !.old_meter_entities = entities_remove(@, meter_entities[existing]),
                     !.updated = @ \cup {meter_entities[existing].oid}]

\* the loops over the accounts and their meters
RECURSIVE process_meters(_, _, _)
process_meters(meter_entities, meters, run) ==
    IF meters = <<>> THEN run
    ELSE process_meters(
             meter_entities, Tail(meters),
             meter_processed(meter_entities, Head(meters),
                             existing_entity(meter_entities, Head(meters), 1), run))

\* the ids of the entities of a list
oids_of(list) == {list[i].oid : i \in 1..Len(list)}

\* the end of the pass: removals are scheduled and the new entities are
\* handed to async_add_entities
update_processed(self, run) ==
    [hass |-> [self EXCEPT !.adding = @ \cup {run.new_entities[i] :
                                                 i \in 1..Len(run.new_entities)},
                           !.removing = @ \cup oids_of(run.old_meter_entities),
                           !.created = run.created],
     run |-> run]

\* --- async_process_update of binary_sensor.py, up to its await
async_process_update(self) ==
    update_processed(
        self,
        process_meters(self.entities, self.meters,
                       [new_entities |-> <<>>, old_meter_entities |-> self.entities,
                        updated |-> {}, created |-> self.created]))

\* a refresh has reconciled the snapshot into the model
ModelRefreshed(meters) ==
    /\ meters # hass.meters
    /\ hass' = [hass EXCEPT !.meters = meters]
    /\ hass_op' = [name |-> "async_update_info"]

\* an entity update pass: the initial one, or that of a refresh
ProcessUpdate ==
    /\ hass.created + Len(hass.meters) <= MaxEntities
    /\ \E r \in {async_process_update(hass)} :
          /\ hass' = r.hass
          /\ hass_op' = [name |-> "async_process_update",
                         new_entities |-> r.run.new_entities,
                         old_meter_entities |-> r.run.old_meter_entities]

\* --- PikComfortBaseEntity.async_added_to_hass
AddedToHass(entity) ==
    /\ entity \in hass.adding
    /\ hass' = [hass EXCEPT !.adding = @ \ {entity}, !.entities = Append(@, entity)]
    /\ hass_op' = [name |-> "async_added_to_hass", oid |-> entity.oid]

\* --- entity.async_remove() with PikComfortBaseEntity.async_will_remove_from_hass
WillRemoveFromHass(i) ==
    /\ i \in 1..Len(hass.entities)
    /\ hass.entities[i].oid \in hass.removing
    /\ hass' = [hass EXCEPT !.removing = @ \ {hass.entities[i].oid},
                            !.entities = entities_remove(@, hass.entities[i])]
    /\ hass_op' = [name |-> "async_will_remove_from_hass", oid |-> hass.entities[i].oid]

\* the meter entities of the entry: registered, or created and on their way
\* to registering
meter_entities_of(self) == {self.entities[i] : i \in 1..Len(self.entities)} \cup self.adding

\* the entity is an entity of the meter
is_entity_of(entity, meter) ==
    entity.meter_type = meter.type /\ entity.meter_id = meter.id

\* the meter is in the model
in_model(self, entity) ==
    \E k \in 1..Len(self.meters) : is_entity_of(entity, self.meters[k])

\* C38: no two meter entities of the entry, registered or created and not
\* yet registered, are entities of the same meter; and when a pass has just
\* ended, each entity it created is the entity of a meter of the model for
\* which no entity was registered, and every registered entity whose meter
\* is not in the model has a removal scheduled.
C38_OneEntityPerMeter ==
    /\ \A first, second \in meter_entities_of(hass) :
           (first.meter_type = second.meter_type /\ first.meter_id = second.meter_id)
               => first = second
    /\ hass_op.name = "async_process_update" =>
           /\ \A k \in 1..Len(hass_op.new_entities) :
                  /\ in_model(hass, hass_op.new_entities[k])
                  /\ \A i \in 1..Len(hass.entities) :
                         hass.entities[i].meter_id # hass_op.new_entities[k].meter_id
           /\ \A i \in 1..Len(hass.entities) :
                  ~in_model(hass, hass.entities[i]) =>
                      hass.entities[i].oid \in hass.removing

\* --------------------------------------------------------------------
\* SpecService: the create_ticket service of the integration and the
\* push_readings service of a meter sensor, with the events they fire
\* --------------------------------------------------------------------
EVENT_CREATE_TICKET == "DOMAIN_create_ticket"     \* DOMAIN + "_" + SERVICE_CREATE_TICKET
EVENT_PUSH_READINGS == "DOMAIN_push_readings"     \* DOMAIN + "_" + SERVICE_PUSH_READINGS

\* what a service call ends with: the exception that leaves the handler,
\* how the try block with the API operation ended (None when the handler
\* did not reach it), the events fired on the bus in their order, and
\* whether the entity was scheduled for an update with force_refresh=True
service_result(raised, tried, events, force_refresh) ==
    [raised |-> raised, outcome |-> tried, events |-> events,
     force_refresh |-> force_refresh]

\* hass.bus.async_fire(...) in the finally of async_service_create_ticket
\* without the else clause: the flag stays False
create_ticket_fired_unflagged(account_id, classifier_id, ignore_classifier_check, r) ==
    service_result(
        IF r.raised = "none" THEN "none"
        ELSE IF isinstance(r.raised, "PikComfortException") THEN "Exception"
        ELSE r.raised,
        r,
        <<[event_type |-> EVENT_CREATE_TICKET, account_id |-> account_id,
           classifier_id |-> classifier_id,
           ignore_classifier_check |-> ignore_classifier_check,
           ticket_id |-> NoneStr, success |-> FALSE]>>,
        FALSE)

\* --- the try statement of async_service_create_ticket, the API call
\* having ended as r
create_ticket_fired(account_id, classifier_id, ignore_classifier_check, r) ==
    service_result(
        IF r.raised = "none" THEN "none"
        ELSE IF isinstance(r.raised, "PikComfortException") THEN "Exception"
        ELSE r.raised,
        r,
        <<[event_type |-> EVENT_CREATE_TICKET, account_id |-> account_id,
           classifier_id |-> classifier_id,
           ignore_classifier_check |-> ignore_classifier_check,
           ticket_id |-> IF r.raised = "none" THEN r.data.id ELSE NoneStr,
           success |-> r.raised = "none"]>>,
        FALSE)

\* the loop of async_service_create_ticket over hass.data[DOMAIN], which
\* holds the one client: the account with that id is found
account_found(api_object, account_id) ==
    /\ api_object._info # None
    /\ \E i \in 1..Len(api_object._info.accounts) :
           api_object._info.accounts[i].id = account_id

\* --- async_service_create_ticket of __init__.py
async_service_create_ticket(api_object, account_id, classifier_id, ignore_classifier_check, response) ==
    IF ~account_found(api_object, account_id)
    THEN service_result("Exception", None, <<>>, FALSE)
    ELSE create_ticket_fired(
             account_id, classifier_id, ignore_classifier_check,
             async_create_ticket(api_object, classifier_id, "leak", account_id, TRUE,
                                 ~ignore_classifier_check, response))

\* what call_data[ATTR_NOTIFICATION] may be: a boolean, or a mapping whose
\* values are formatted with the event data
NotificationContents == {"False", "True", "{comment}", "{unknown}"}

\* --- PikComfortMeterSensor._fire_callback_event: the event is fired with
\* the defaults under the data of the call, then the notification is built
fire_callback_event(call_data, event_data, event_id) ==
    [events |-> <<[event_type |-> event_id, call_params |-> call_data] @@ event_data
                      @@ [success |-> FALSE, comment |-> NoneStr]>>,
     raised |-> IF call_data.notification = "{unknown}" THEN "KeyError" ELSE "none"]

\* the finally clause of async_service_push_readings: the exception of the
\* clause, if any, replaces the one on its way out
push_readings_fired(r, force_refresh, fired) ==
    service_result(IF fired.raised # "none" THEN fired.raised ELSE r.raised,
                   r, fired.events, force_refresh)

\* --- the except, else and finally clauses of async_service_push_readings,
\* the try block having ended as r with event_data[ATTR_READINGS] readings
push_readings_handled(call_data, readings, r) ==
    IF r.raised = "none"
    THEN push_readings_fired(
             r, TRUE,
             fire_callback_event(call_data,
                                 [readings |-> readings,
                                  comment |-> "Indications submitted successfully",
                                  success |-> TRUE],
                                 EVENT_PUSH_READINGS))
    ELSE IF isinstance(r.raised, "PikComfortException")
    THEN push_readings_fired(
             r, FALSE,
             fire_callback_event(call_data, [readings |-> readings, comment |-> "API error"],
                                 EVENT_PUSH_READINGS))
    ELSE push_readings_fired(
             r, FALSE,
             fire_callback_event(call_data,
                                 [readings |-> readings, comment |-> "Unknown error"],
                                 EVENT_PUSH_READINGS))

\* the try block from get_submit_call_args on, which has ended as args
push_readings_submitted(meter_object, api_object, call_data, args, response) ==
    push_readings_handled(
        call_data,
        IF args.raised = "none" THEN SomeList(args.dict) ELSE NoneList,
        push_submit(meter_object, api_object, args, response))

\* --- PikComfortMeterSensor.async_service_push_readings with the event
\* it fires; meter_object is None when the meter is not in the model
service_push_readings(meter_object, api_object, call_data, response) ==
    IF meter_object = None
    THEN push_readings_handled(call_data, NoneList,
                               raises("Exception", <<"Meter is unavailable">>, <<>>))
    ELSE push_readings_submitted(
             meter_object, api_object, call_data,
             get_submit_call_args(meter_object, call_data.readings, call_data.incremental,
                                  Len(call_data.readings)),
             response)

\* the meter of the sensor: absent from the model, or with one or two zones
ServiceMeters ==
    {None} \cup {PikComfortMeter_create_from_json(json_data, 1) :
                    json_data \in SensorMeterJson}

ServiceReadings == {<<<<"t1", 50>>>>, <<<<"t2", 50>>>>, <<<<"t3", 50>>>>}

ServiceInit ==
    /\ api \in {PikComfortAPI_init("79001234567", token) : token \in {NoneStr, "token"}}
    /\ api_op = [name |-> "none"]

ServiceCreateTicket(account_id, classifier_id, ignore_classifier_check, response) ==
    /\ api_op' = [name |-> "create_ticket", account_id |-> account_id,
                  result |-> async_service_create_ticket(
                                 api, account_id, classifier_id,
                                 ignore_classifier_check, response)]
    /\ UNCHANGED api

ServicePushReadings(meter_object, call_data, response) ==
    /\ api_op' = [name |-> "push_readings",
                  result |-> service_push_readings(meter_object, api, call_data,
                                                   response)]
    /\ UNCHANGED api

\* the service call has fired one event of the type given, with the success
\* flag telling whether the API operation was reached and returned
one_result_event(result, event_type) ==
    /\ Len(result.events) = 1
    /\ result.events[1].event_type = event_type
    /\ result.events[1].success = (result.outcome # None /\ result.outcome.raised = "none")

\* C39: a create_ticket call whose account is found in the model, and a
\* push_readings call, has fired exactly one event of its type when it ends,
\* however it ends; the success flag of the event is true exactly when the
\* API operation (async_create_ticket, async_submit_readings) was called and
\* returned; a create_ticket event that reports success carries the id of
\* the ticket; and push_readings has asked for a forced refresh of the
\* entity exactly when the submission returned.
C39_OneResultEvent ==
    /\ (api_op.name = "create_ticket" /\ account_found(api, api_op.account_id)) =>
           /\ one_result_event(api_op.result, EVENT_CREATE_TICKET)
           /\ api_op.result.events[1].success =>
                  api_op.result.events[1].ticket_id = api_op.result.outcome.data.id
           /\ api_op.result.raised = "none" <=> api_op.result.events[1].success
    /\ api_op.name = "push_readings" =>
           /\ one_result_event(api_op.result, EVENT_PUSH_READINGS)
           /\ api_op.result.force_refresh = api_op.result.events[1].success
           /\ api_op.result.events[1].success =>
                  /\ Len(api_op.result.outcome.requests) = 1
                  /\ api_op.result.events[1].comment = "Indications submitted successfully"

\* C39 witness: a create_ticket call has created the ticket and fired its
\* event with the success flag
C39_Witness ==
    /\ api_op.name = "create_ticket"
    /\ account_found(api, api_op.account_id)
    /\ api_op.result.raised = "none"
    /\ Len(api_op.result.events) = 1
    /\ api_op.result.events[1].success
    /\ api_op.result.events[1].ticket_id = "t1"

\* C39 witness: a create_ticket call whose request was rejected has fired its
\* event without the success flag and ended with an exception
C39_WitnessTicketFailed ==
    /\ api_op.name = "create_ticket"
    /\ account_found(api, api_op.account_id)
    /\ api_op.result.outcome # None
    /\ Len(api_op.result.outcome.requests) = 1
    /\ api_op.result.raised = "Exception"
    /\ Len(api_op.result.events) = 1
    /\ ~api_op.result.events[1].success

\* C39 witness: a push_readings call has submitted the readings, fired its
\* event with the success flag and asked for a forced refresh
C39_WitnessPushed ==
    /\ api_op.name = "push_readings"
    /\ api_op.result.raised = "none"
    /\ api_op.result.force_refresh
    /\ Len(api_op.result.events) = 1
    /\ api_op.result.events[1].success

\* C39 witness: a push_readings call on a sensor whose meter is gone has
\* fired its event without the success flag
C39_WitnessUnavailable ==
    /\ api_op.name = "push_readings"
    /\ api_op.result.outcome.raised = "Exception"
    /\ api_op.result.outcome.requests = <<>>
    /\ api_op.result.raised = "Exception"
    /\ Len(api_op.result.events) = 1
    /\ ~api_op.result.events[1].success
    /\ ~api_op.result.force_refresh

\* --------------------------------------------------------------------
\* SpecFetch: the refresh coordinator with the client it drives; the fetch
\* of a leader is PikComfortAPI.async_update_info on an answer of the session
\* --------------------------------------------------------------------
FetchResponses ==
    {[kind |-> "ClientError"], Rejected, Snapshot(1),
     HttpResponse(DEFAULT_EXPECTED_STATUS,
                  [type |-> "object", obj |-> [count |-> 1, results |-> <<>>]])}

FetchInit ==
    /\ CoordInit
    /\ \E token \in {NoneStr, "token"} :
           api = PikComfortAPI_init("79001234567", token)
    /\ api_op = [name |-> "none"]

\* which clause of the delegator's try statement the end of the fetch takes
fetch_outcome(result) ==
    IF result.raised = "none" THEN "ok"
    ELSE IF isinstance(result.raised, "PikComfortException") THEN "PikComfortException"
    ELSE "Exception"

\* `await api_object.async_update_info()` of the leader returns or raises
FetchVia(c, response) ==
    \E r \in {async_update_info(api, response)} :
        /\ FetchDone(c, fetch_outcome(r.result))
        /\ api' = r.api
        /\ api_op' = [name |-> "async_update_info", result |-> r.result]

\* the HTTP requests handed to the session by the last fetch
sent == IF api_op.name = "none" THEN <<>> ELSE api_op.result.requests

\* C34: nothing is sent twice. A refresh calls async_update_info at most
\* once, only a refresh that a caller started fetches, a fetch that has
\* ended was issued once, and a fetch hands exactly one request to the
\* session, the GET of the snapshot (none when the client holds no token
\* and refuses the call itself), whether it succeeds or fails: a failed
\* request or a failed refresh is not repeated, the next fetch belongs to the
\* next refresh that a caller starts.
C34_NoRetry ==
    /\ \A f \in Futures :
           /\ fetches[f] <= 1
           /\ fetches[f] = 1 => f <= collective_update_counter
           /\ fetch_result[f] # "none" => fetches[f] = 1
    /\ api_op.name = "async_update_info" =>
           /\ Len(sent) = IF is_authenticated(api) THEN 1 ELSE 0
           /\ \A k \in 1..Len(sent) : sent[k].url = SnapshotUrl

\* C34 witness: the one refresh started so far has fetched once, its request
\* failed to connect, the leader has ended with the failure, nothing is in
\* flight and one request was sent
C34_Witness ==
    /\ collective_update_counter = 1
    /\ collective_update_future = 0
    /\ fetches[1] = 1
    /\ fetch_result[1] = "PikComfortException"
    /\ api_op.name = "async_update_info"
    /\ api_op.result.raised = "RequestError"
    /\ Len(sent) = 1
    /\ \A c \in Callers : pc[c] = "idle"

\* ====================================================================
\* Specifications
\* ====================================================================
Init == CoordInit /\ ListIdle /\ AttachmentsIdle /\ ReceiptsIdle /\ RecordIdle /\
        AccountIdle /\ ApiIdle /\ FlowIdle /\ HassIdle

Next ==
    \/ \E c \in Callers : Request(c) /\ UNCHANGED model_vars
    \/ \E c \in Callers : SleepDone(c) /\ UNCHANGED model_vars
    \/ \E c \in Callers, res \in FetchResults : FetchDone(c, res) /\ UNCHANGED model_vars
    \/ \E c \in Callers : NotifyDone(c) /\ UNCHANGED model_vars
    \/ \E c \in Callers : WaiterResume(c) /\ UNCHANGED model_vars
    \/ \E c \in Callers : Cancel(c) /\ UNCHANGED model_vars
    \/ \E c \in Callers : Return(c) /\ UNCHANGED model_vars

Spec == Init /\ [][Next]_vars

InitList ==
    CoordInit /\ ListInit /\ AttachmentsIdle /\ ReceiptsIdle /\ RecordIdle /\ AccountIdle /\
            ApiIdle /\ FlowIdle /\ HassIdle

NextList ==
    \E json_data_list \in TurnoverPayloads : ReconcileList(json_data_list)
        /\ UNCHANGED <<coord_vars, attachments_vars, receipts_vars, record_vars,
                account_vars, api_vars, flow_vars, hass_vars>>

SpecList == InitList /\ [][NextList]_vars

InitAttachments ==
    CoordInit /\ ListIdle /\ AttachmentsInit /\ ReceiptsIdle /\ RecordIdle /\ AccountIdle /\
            ApiIdle /\ FlowIdle /\ HassIdle

NextAttachments ==
    \E json_data_list \in AttachmentPayloads : ReconcileAttachments(json_data_list)
        /\ UNCHANGED <<coord_vars, list_vars, receipts_vars, record_vars, account_vars,
                api_vars, flow_vars, hass_vars>>

SpecAttachments == InitAttachments /\ [][NextAttachments]_vars

InitReceipts ==
    CoordInit /\ ListIdle /\ AttachmentsIdle /\ ReceiptsInit /\ RecordIdle /\ AccountIdle /\
            ApiIdle /\ FlowIdle /\ HassIdle

NextReceipts ==
    \E json_data_list \in ReceiptPayloads : ReconcileReceipts(json_data_list)
        /\ UNCHANGED <<coord_vars, list_vars, attachments_vars, record_vars, account_vars,
                api_vars, flow_vars, hass_vars>>

SpecReceipts == InitReceipts /\ [][NextReceipts]_vars

InitRecord ==
    CoordInit /\ ListIdle /\ AttachmentsIdle /\ ReceiptsIdle /\ RecordInit /\ AccountIdle /\
            ApiIdle /\ FlowIdle /\ HassIdle

NextRecord ==
    \E json_data \in RecordJson(record.cls) : UpdateRecord(json_data)
        /\ UNCHANGED <<coord_vars, list_vars, attachments_vars, receipts_vars, account_vars,
                api_vars, flow_vars, hass_vars>>

SpecRecord == InitRecord /\ [][NextRecord]_vars

InitAccount ==
    CoordInit /\ ListIdle /\ AttachmentsIdle /\ ReceiptsIdle /\ RecordIdle /\ AccountInit /\
            ApiIdle /\ FlowIdle /\ HassIdle

NextAccount ==
    \E json_data \in AccountJson : UpdateAccount(json_data)
        /\ UNCHANGED <<coord_vars, list_vars, attachments_vars, receipts_vars, record_vars,
                api_vars, flow_vars, hass_vars>>

SpecAccount == InitAccount /\ [][NextAccount]_vars

InitLast ==
    CoordInit /\ ListIdle /\ AttachmentsIdle /\ ReceiptsIdle /\ RecordIdle /\ LedgerInit /\
            ApiIdle /\ FlowIdle /\ HassIdle

NextLast ==
    \/ LastPayment
          /\ UNCHANGED <<coord_vars, list_vars, attachments_vars, receipts_vars,
                  record_vars, api_vars, flow_vars, hass_vars>>
    \/ LastReceipt
          /\ UNCHANGED <<coord_vars, list_vars, attachments_vars, receipts_vars,
                  record_vars, api_vars, flow_vars, hass_vars>>

SpecLast == InitLast /\ [][NextLast]_vars

InitClassifier ==
    CoordInit /\ ListIdle /\ AttachmentsIdle /\ ReceiptsIdle /\ RecordIdle /\ AccountIdle /\
            ClassifierInit /\ FlowIdle /\ HassIdle

NextClassifier ==
    \/ \E i \in 1..MaxClassifiers, property \in ClassifierProperties :
            PathFrom(i, property)
          /\ UNCHANGED <<coord_vars, list_vars, attachments_vars, receipts_vars,
                  record_vars, account_vars, flow_vars, hass_vars>>
    \/ PathFromStep
          /\ UNCHANGED <<coord_vars, list_vars, attachments_vars, receipts_vars,
                  record_vars, account_vars, flow_vars, hass_vars>>

SpecClassifier == InitClassifier /\ [][NextClassifier]_vars
    /\ WF_vars(PathFromStep /\ UNCHANGED <<coord_vars, list_vars, attachments_vars,
            receipts_vars, record_vars, account_vars, flow_vars, hass_vars>>)

InitRequest ==
    CoordInit /\ ListIdle /\ AttachmentsIdle /\ ReceiptsIdle /\ RecordIdle /\ AccountIdle /\
            RequestInit /\ FlowIdle /\ HassIdle

NextRequest ==
    \E authenticated \in {"None", "True", "False"},
          expected_status \in {DEFAULT_EXPECTED_STATUS, HTTP_CREATED, NoneNum},
          response \in Responses :
            AsyncRequest(authenticated, expected_status, response)
        /\ UNCHANGED <<coord_vars, list_vars, attachments_vars, receipts_vars, record_vars,
                account_vars, flow_vars, hass_vars>>

SpecRequest == InitRequest /\ [][NextRequest]_vars

InitAuth ==
    CoordInit /\ ListIdle /\ AttachmentsIdle /\ ReceiptsIdle /\ RecordIdle /\ AccountIdle /\
            AuthInit /\ FlowIdle /\ HassIdle

NextAuth ==
    \E otp_token \in {"1234"}, response \in OtpResponses :
            AuthenticateOtp(otp_token, response)
        /\ UNCHANGED <<coord_vars, list_vars, attachments_vars, receipts_vars, record_vars,
                account_vars, flow_vars, hass_vars>>

SpecAuth == InitAuth /\ [][NextAuth]_vars

InitTicket ==
    CoordInit /\ ListIdle /\ AttachmentsIdle /\ ReceiptsIdle /\ RecordIdle /\ AccountIdle /\
            TicketInit /\ FlowIdle /\ HassIdle

NextTicket ==
    \/ \E response \in InfoResponses : UpdateInfo(response)
          /\ UNCHANGED <<coord_vars, list_vars, attachments_vars, receipts_vars,
                  record_vars, account_vars, flow_vars, hass_vars>>
    \/ \E response \in ClassifierResponses : UpdateClassifiers(response)
          /\ UNCHANGED <<coord_vars, list_vars, attachments_vars, receipts_vars,
                  record_vars, account_vars, flow_vars, hass_vars>>
    \/ \E classifier_id \in {"A", "B"}, account_id \in {NoneStr, "a1", "a3"},
          check_account \in BOOLEAN, check_classifier \in BOOLEAN,
          response \in TicketResponses :
            CreateTicket(classifier_id, account_id, check_account, check_classifier,
                         response)
          /\ UNCHANGED <<coord_vars, list_vars, attachments_vars, receipts_vars,
                  record_vars, account_vars, flow_vars, hass_vars>>
    \/ \E json_data \in MeterJson, values \in {<<<<1, 50>>>>, <<<<2, 50>>>>},
          response \in ReadingsResponses :
            SubmitReadings(json_data, values, response)
          /\ UNCHANGED <<coord_vars, list_vars, attachments_vars, receipts_vars,
                  record_vars, account_vars, flow_vars, hass_vars>>

SpecTicket == InitTicket /\ [][NextTicket]_vars

InitSensor ==
    CoordInit /\ ListIdle /\ AttachmentsIdle /\ ReceiptsIdle /\ RecordIdle /\ AccountIdle /\
            SensorInit /\ FlowIdle /\ HassIdle

NextSensor ==
    \E json_data \in SensorMeterJson, readings \in Indications, incremental \in BOOLEAN,
          response \in ReadingsResponses :
            PushReadings(json_data, [readings |-> readings, incremental |-> incremental],
                         response)
        /\ UNCHANGED <<coord_vars, list_vars, attachments_vars, receipts_vars, record_vars,
                account_vars, flow_vars, hass_vars>>

SpecSensor == InitSensor /\ [][NextSensor]_vars

InitFlow ==
    CoordInit /\ ListIdle /\ AttachmentsIdle /\ ReceiptsIdle /\ RecordIdle /\ AccountIdle /\
            ApiIdle /\ FlowInit /\ HassIdle

NextFlow ==
    \E user_input \in OtpInputs, elapsed \in 0..1, response \in FlowResponses :
            StepOtpInput(user_input, elapsed, response)
        /\ UNCHANGED <<coord_vars, list_vars, attachments_vars, receipts_vars, record_vars,
                account_vars, api_vars, hass_vars>>

SpecFlow == InitFlow /\ [][NextFlow]_vars

InitInfo ==
    CoordInit /\ ListIdle /\ AttachmentsIdle /\ ReceiptsIdle /\ RecordIdle /\ AccountIdle /\
            InfoInit /\ FlowIdle /\ HassIdle

NextInfo ==
    \E response \in SnapshotResponses : UpdateInfo(response)
        /\ UNCHANGED <<coord_vars, list_vars, attachments_vars, receipts_vars, record_vars,
                account_vars, flow_vars, hass_vars>>

SpecInfo == InitInfo /\ [][NextInfo]_vars

InitRefresh ==
    CoordInit /\ ListIdle /\ AttachmentsIdle /\ ReceiptsIdle /\ RecordIdle /\ AccountIdle /\
            RefreshInit /\ FlowIdle /\ HassIdle

NextRefresh ==
    \/ RefreshRequest
          /\ UNCHANGED <<coord_vars, list_vars, attachments_vars, receipts_vars,
                  record_vars, account_vars, flow_vars, hass_vars>>
    \/ \E response \in RefreshResponses : RefreshResponse(response)
          /\ UNCHANGED <<coord_vars, list_vars, attachments_vars, receipts_vars,
                  record_vars, account_vars, flow_vars, hass_vars>>

SpecRefresh == InitRefresh /\ [][NextRefresh]_vars

InitMeter ==
    CoordInit /\ ListIdle /\ AttachmentsIdle /\ ReceiptsIdle /\ MeterInit /\ AccountIdle /\
            ApiIdle /\ FlowIdle /\ HassIdle

NextMeter ==
    \E json_data \in MeterSnapshots : UpdateMeter(json_data)
        /\ UNCHANGED <<coord_vars, list_vars, attachments_vars, receipts_vars, account_vars,
                api_vars, flow_vars, hass_vars>>

SpecMeter == InitMeter /\ [][NextMeter]_vars

InitNested ==
    CoordInit /\ ListIdle /\ AttachmentsIdle /\ ReceiptsIdle /\ NestedInit /\ AccountIdle /\
            ApiIdle /\ FlowIdle /\ HassIdle

NextNested ==
    \E json_data \in NestedJson(record.cls, FALSE) : UpdateNested(json_data)
        /\ UNCHANGED <<coord_vars, list_vars, attachments_vars, receipts_vars, account_vars,
                api_vars, flow_vars, hass_vars>>

SpecNested == InitNested /\ [][NextNested]_vars

InitNullable ==
    CoordInit /\ ListIdle /\ AttachmentsIdle /\ ReceiptsIdle /\ NullableInit /\ AccountIdle
            /\ ApiIdle /\ FlowIdle /\ HassIdle

NextNullable ==
    \E json_data \in NullableJson(record.cls) : UpdateNullable(json_data)
        /\ UNCHANGED <<coord_vars, list_vars, attachments_vars, receipts_vars, account_vars,
                api_vars, flow_vars, hass_vars>>

SpecNullable == InitNullable /\ [][NextNullable]_vars

InitEntry ==
    CoordInit /\ ListIdle /\ AttachmentsIdle /\ ReceiptsIdle /\ RecordIdle /\ AccountIdle /\
            ApiIdle /\ EntryInit /\ HassIdle

NextEntry ==
    \/ \E user_input \in UserInputs, response \in EntryResponses :
            StepUser(user_input, response)
          /\ UNCHANGED <<coord_vars, list_vars, attachments_vars, receipts_vars,
                  record_vars, account_vars, api_vars, hass_vars>>
    \/ \E user_input \in InitInputs, response \in EntryResponses :
            StepInit(user_input, response)
          /\ UNCHANGED <<coord_vars, list_vars, attachments_vars, receipts_vars,
                  record_vars, account_vars, api_vars, hass_vars>>

SpecEntry == InitEntry /\ [][NextEntry]_vars

InitSubmit ==
    CoordInit /\ ListIdle /\ AttachmentsIdle /\ ReceiptsIdle /\ RecordIdle /\ AccountIdle /\
            SubmitInit /\ FlowIdle /\ HassIdle

NextSubmit ==
    \E json_data \in SubmitMeterJson, values \in SubmitValues,
          response \in SubmitResponses :
            SubmitMeterReadings(json_data, values, response)
        /\ UNCHANGED <<coord_vars, list_vars, attachments_vars, receipts_vars, record_vars,
                account_vars, flow_vars, hass_vars>>

SpecSubmit == InitSubmit /\ [][NextSubmit]_vars

InitLife ==
    CoordInit /\ ListIdle /\ AttachmentsIdle /\ ReceiptsIdle /\ RecordIdle /\ AccountIdle /\
            ApiIdle /\ FlowIdle /\ LifeInit

NextLife ==
    \/ \E entry_id \in Entries, response \in LifeResponses :
            SetupEntry(entry_id, response)
          /\ UNCHANGED <<coord_vars, list_vars, attachments_vars, receipts_vars,
                  record_vars, account_vars, api_vars, flow_vars>>
    \/ \E entry_id \in Entries, domain \in Platforms : PlatformSetup(entry_id, domain)
          /\ UNCHANGED <<coord_vars, list_vars, attachments_vars, receipts_vars,
                  record_vars, account_vars, api_vars, flow_vars>>
    \/ \E entry_id \in Entries, domain \in SUPPORTED_PLATFORMS, pass_raised \in BOOLEAN :
            PassDone(entry_id, domain, pass_raised)
          /\ UNCHANGED <<coord_vars, list_vars, attachments_vars, receipts_vars,
                  record_vars, account_vars, api_vars, flow_vars>>
    \/ \E entry_id \in Entries, unloaded \in [SUPPORTED_PLATFORMS -> BOOLEAN] :
            Unload(entry_id, unloaded)
          /\ UNCHANGED <<coord_vars, list_vars, attachments_vars, receipts_vars,
                  record_vars, account_vars, api_vars, flow_vars>>
    \/ \E entry_id \in Entries, closed \in {"returned", "Exception", "CancelledError"} :
            UnloadClosed(entry_id, closed)
          /\ UNCHANGED <<coord_vars, list_vars, attachments_vars, receipts_vars,
                  record_vars, account_vars, api_vars, flow_vars>>

SpecLife == InitLife /\ [][NextLife]_vars

InitEntities ==
    CoordInit /\ ListIdle /\ AttachmentsIdle /\ ReceiptsIdle /\ RecordIdle /\ AccountIdle /\
            ApiIdle /\ FlowIdle /\ EntitiesInit

NextEntities ==
    \/ \E meters \in ModelMeters : ModelRefreshed(meters)
          /\ UNCHANGED <<coord_vars, list_vars, attachments_vars, receipts_vars,
                  record_vars, account_vars, api_vars, flow_vars>>
    \/ ProcessUpdate
          /\ UNCHANGED <<coord_vars, list_vars, attachments_vars, receipts_vars,
                  record_vars, account_vars, api_vars, flow_vars>>
    \/ \E entity \in hass.adding : AddedToHass(entity)
          /\ UNCHANGED <<coord_vars, list_vars, attachments_vars, receipts_vars,
                  record_vars, account_vars, api_vars, flow_vars>>
    \/ \E i \in 1..MaxEntities : WillRemoveFromHass(i)
          /\ UNCHANGED <<coord_vars, list_vars, attachments_vars, receipts_vars,
                  record_vars, account_vars, api_vars, flow_vars>>

SpecEntities == InitEntities /\ [][NextEntities]_vars

InitService ==
    CoordInit /\ ListIdle /\ AttachmentsIdle /\ ReceiptsIdle /\ RecordIdle /\ AccountIdle /\
            ServiceInit /\ FlowIdle /\ HassIdle

NextService ==
    \/ \E response \in InfoResponses : UpdateInfo(response)
          /\ UNCHANGED <<coord_vars, list_vars, attachments_vars, receipts_vars,
                  record_vars, account_vars, flow_vars, hass_vars>>
    \/ \E account_id \in {"a1", "a3"}, classifier_id \in {"A"},
          ignore_classifier_check \in BOOLEAN, response \in TicketResponses :
            ServiceCreateTicket(account_id, classifier_id, ignore_classifier_check,
                                response)
          /\ UNCHANGED <<coord_vars, list_vars, attachments_vars, receipts_vars,
                  record_vars, account_vars, flow_vars, hass_vars>>
    \/ \E meter_object \in ServiceMeters, readings \in ServiceReadings, incremental \in BOOLEAN,
          notification \in NotificationContents, response \in ReadingsResponses :
            ServicePushReadings(meter_object,
                                [readings |-> readings, incremental |-> incremental,
                                 notification |-> notification],
                                response)
          /\ UNCHANGED <<coord_vars, list_vars, attachments_vars, receipts_vars,
                  record_vars, account_vars, flow_vars, hass_vars>>

SpecService == InitService /\ [][NextService]_vars

InitFetch ==
    FetchInit /\ ListIdle /\ AttachmentsIdle /\ ReceiptsIdle /\ RecordIdle /\ AccountIdle
    /\ FlowIdle /\ HassIdle

NextFetch ==
    \/ \E c \in Callers : Request(c) /\ UNCHANGED model_vars
    \/ \E c \in Callers : SleepDone(c) /\ UNCHANGED model_vars
    \/ \E c \in Callers, response \in FetchResponses : FetchVia(c, response)
          /\ UNCHANGED <<list_vars, attachments_vars, receipts_vars, record_vars,
                         account_vars, flow_vars, hass_vars>>
    \/ \E c \in Callers : NotifyDone(c) /\ UNCHANGED model_vars
    \/ \E c \in Callers : WaiterResume(c) /\ UNCHANGED model_vars
    \/ \E c \in Callers : Cancel(c) /\ UNCHANGED model_vars
    \/ \E c \in Callers : Return(c) /\ UNCHANGED model_vars

SpecFetch == InitFetch /\ [][NextFetch]_vars

=============================================================================
